---------------------------- MODULE Spec2Model ----------------------------
(***************************************************************************)
(* The retirement projection engine of ferex_cli (package calc): the       *)
(* once-per-scenario evaluators of calculator.go, the year-by-year         *)
(* projection loop of projections.go, the summary and warnings of          *)
(* summary.go and the multi-scenario comparison CompareRetirementAges.     *)
(*                                                                         *)
(* Arithmetic.  The Go code computes in float64.  The model computes in    *)
(* integers: money is whole dollars, a rate is an integer over a named     *)
(* scale (GrowthRate 7 over PctScale is 0.07), and every product with a    *)
(* rate is followed by an integer division, so a result is the float       *)
(* result rounded down to the dollar.  math.Pow(1+r, n) is n successive    *)
(* multiplications.  Service years are whole years.                        *)
(***************************************************************************)
EXTENDS Integers, Sequences, FiniteSets, TLC

VARIABLES
    op,           \* the entry point the caller uses: "calc" (runCalc) or "compare" (runCompare)
    baseConfig,   \* the caller's profile (*models.Config handed to the engine)
    ageStrings,   \* CompareRetirementAges' ageStrings argument
    now,          \* the wall clock, as time.Now().Year()
    pc,           \* position of the engine
    i,            \* CompareRetirementAges: index of the age being processed (1-based)
    configCopy,   \* CompareRetirementAges: the loop-local copy of *baseConfig
    calcConfig,   \* Calculator.config: which storage the calculator points at
    pension,      \* Calculate: models.PensionCalculation
    socialSecurity, \* Calculate: models.SocialSecurityCalculation
    ferssupplement, \* Calculate: models.FERSSupplementCalculation
    age,          \* generateAnnualProjections: the loop variable
    tspBalance,   \* generateAnnualProjections: the carried pool balance
    projections,  \* generateAnnualProjections: the records emitted so far
    results,      \* the RetirementResults returned so far, in call order
    comparison,   \* CompareRetirementAges' *ComparisonResults (Nil until returned)
    err,          \* the error returned to the caller ("nil" when none)
    fn,           \* the evaluator applied on its own ("none" when the engine runs)
    args,         \* the arguments the evaluator is applied to
    out           \* what the evaluator returned (<< >> before it has returned)

vars == << op, baseConfig, ageStrings, now, pc, i, configCopy, calcConfig,
           pension, socialSecurity, ferssupplement, age, tspBalance,
           projections, results, comparison, err, fn, args, out >>

-----------------------------------------------------------------------------
(* Scales of the integer arithmetic *)

PctScale == 100          \* rates held in percent
MilleScale == 1000       \* rates held per thousand
BpScale == 10000         \* rates held per ten thousand
AdjScale == 100000       \* the Social Security adjustment factor

Min(a, b) == IF a <= b THEN a ELSE b
Max(a, b) == IF a >= b THEN a ELSE b

(* amount * (1 + rate/scale)^n, one multiplication per year *)
RECURSIVE Compound(_, _, _, _)
Compound(amount, rate, scale, n) ==
    IF n <= 0 THEN amount
    ELSE Compound((amount * (scale + rate)) \div scale, rate, scale, n - 1)

-----------------------------------------------------------------------------
(* calculator.go *)

FERSHighMultiplier == 11     \* 0.011, per thousand
FERSLowMultiplier == 10      \* 0.01, per thousand

(* the higher multiplier given on age alone *)
calculateFERSPensionOnAgeAlone(service, high3, a) ==
    LET multiplier == IF a >= 62 THEN FERSHighMultiplier ELSE FERSLowMultiplier
    IN  (high3 * multiplier * service) \div MilleScale

calculateFERSPension(service, high3, a) ==
    LET multiplier == IF a >= 62 /\ service >= 20
                      THEN FERSHighMultiplier ELSE FERSLowMultiplier
    IN  (high3 * multiplier * service) \div MilleScale

(* the band 1948-1952 taken as 56 throughout *)
calculateMRAWithoutInnerStep(c) ==
    LET birthYear == c.Personal.BirthYear
    IN  CASE birthYear < 1948 -> 55
          [] birthYear < 1953 -> 56
          [] birthYear < 1965 -> 56
          [] birthYear < 1970 -> 57
          [] OTHER -> 57

(* config.go: calculateMRA(birthDate), on birthDate.Year() *)
config_calculateMRA(birthYear) ==
    CASE birthYear < 1948 -> 55
      [] birthYear < 1953 -> (IF birthYear < 1950 THEN 55 ELSE 56)
      [] birthYear < 1965 -> 56
      [] birthYear < 1970 -> 57
      [] OTHER -> 57

calculateMRA(c) ==
    LET birthYear == c.Personal.BirthYear
    IN  CASE birthYear < 1948 -> 55
          [] birthYear < 1953 -> (IF birthYear < 1950 THEN 55 ELSE 56)
          [] birthYear < 1965 -> 56
          [] birthYear < 1970 -> 57
          [] OTHER -> 57

(* the MRA+10 reduction capped at 25%, as the CSRS reduction is *)
calculateFERSReductionCapped(c, a, service) ==
    IF a >= 62 /\ service >= 5 THEN 0
    ELSE IF a >= 60 /\ service >= 20 THEN 0
    ELSE LET mra == calculateMRA(c)
         IN  IF a >= mra /\ service >= 30 THEN 0
             ELSE IF a >= mra /\ service >= 10
                  THEN (IF a < 62 THEN Min((62 - a) * 5, 25) ELSE 0)
                  ELSE 0

calculateFERSReduction(c, a, service) ==
    IF a >= 62 /\ service >= 5 THEN 0
    ELSE IF a >= 60 /\ service >= 20 THEN 0
    ELSE LET mra == calculateMRA(c)
         IN  IF a >= mra /\ service >= 30 THEN 0
             ELSE IF a >= mra /\ service >= 10
                  THEN (IF a < 62 THEN (62 - a) * 5 ELSE 0)
                  ELSE 0

CSRSTier1Rate == 150     \* 0.015, per ten thousand
CSRSTier2Rate == 175     \* 0.0175, per ten thousand
CSRSTier3Rate == 200     \* 0.02, per ten thousand

(* the tiers not clamped to the service they cover *)
calculateCSRSPensionUnclamped(service, high3) ==
    LET first5 == (service * CSRSTier1Rate * high3) \div BpScale
        next5 == IF service > 5
                 THEN ((service - 5) * CSRSTier2Rate * high3) \div BpScale
                 ELSE 0
        remaining == IF service > 10
                     THEN ((service - 10) * CSRSTier3Rate * high3) \div BpScale
                     ELSE 0
    IN  first5 + next5 + remaining

calculateCSRSPension(service, high3) ==
    LET first5 == (Min(service, 5) * CSRSTier1Rate * high3) \div BpScale
        next5 == IF service > 5
                 THEN (Min(service - 5, 5) * CSRSTier2Rate * high3) \div BpScale
                 ELSE 0
        remaining == IF service > 10
                     THEN ((service - 10) * CSRSTier3Rate * high3) \div BpScale
                     ELSE 0
    IN  first5 + next5 + remaining

calculateCSRSReduction(a, service) ==
    IF a >= 62 THEN 0
    ELSE IF a >= 60 /\ service >= 20 THEN 0
    ELSE IF a >= 55 /\ service >= 30 THEN 0
    ELSE IF a >= 55 /\ service >= 20 THEN Min((62 - a) * 2, 25)
    ELSE 0

CSRSSurvivorThreshold == 3600

(* above the threshold the whole annuity charged at the higher rate *)
calculateCSRSSurvivorCostWholeAtHigherRate(p) ==
    IF p <= CSRSSurvivorThreshold
    THEN (p * 25) \div MilleScale
    ELSE (p * 10) \div PctScale

calculateCSRSSurvivorCost(p) ==
    IF p <= CSRSSurvivorThreshold
    THEN (p * 25) \div MilleScale
    ELSE (CSRSSurvivorThreshold * 25) \div MilleScale
         + ((p - CSRSSurvivorThreshold) * 10) \div PctScale

calculateSurvivorBenefitCost(c, p) ==
    CASE c.Retirement.SurvivorBenefit = "full" ->
            (IF c.Personal.RetirementSystem = "FERS"
             THEN (p * 10) \div PctScale
             ELSE calculateCSRSSurvivorCost(p))
      [] c.Retirement.SurvivorBenefit = "partial" ->
            (IF c.Personal.RetirementSystem = "FERS"
             THEN (p * 5) \div PctScale
             ELSE calculateCSRSSurvivorCost(p) \div 2)
      [] OTHER -> 0

(* the reduction left out *)
ApplyReductionIgnored(basePension, reductionPct) == basePension

(* adjustedPension := basePension * (1 - reductionPct/100) *)
ApplyReduction(basePension, reductionPct) ==
    (basePension * (PctScale - reductionPct)) \div PctScale

(* The error result of calculatePension is nil on every path. *)
calculatePension(c) ==
    LET service == c.Employment.CreditableService.TotalYears
        high3 == c.Employment.High3Salary
        a == c.Retirement.TargetAge
        isFERS == c.Personal.RetirementSystem = "FERS"
        basePension == IF isFERS THEN calculateFERSPension(service, high3, a)
                       ELSE calculateCSRSPension(service, high3)
        reductionPct == IF isFERS THEN calculateFERSReduction(c, a, service)
                        ELSE calculateCSRSReduction(a, service)
        adjustedPension == ApplyReduction(basePension, reductionPct)
        survivorCost == calculateSurvivorBenefitCost(c, adjustedPension)
    IN  [ BasePension |-> basePension,
          ReductionPercent |-> reductionPct,
          AdjustedPension |-> adjustedPension,
          SurvivorCost |-> survivorCost,
          FinalPension |-> adjustedPension - survivorCost,
          err |-> "nil" ]

FRA == 67

(* no credit for claiming after the reference age *)
calculateSSClaimingAdjustmentNoDelayedCredit(claimingAge) ==
    IF claimingAge >= FRA THEN AdjScale
    ELSE LET monthsEarly == (FRA - claimingAge) * 12
         IN  IF monthsEarly <= 36
             THEN AdjScale - monthsEarly * 555
             ELSE AdjScale - (36 * 555 + (monthsEarly - 36) * 416)

(* the factor over AdjScale: 0.00555 is 555, 0.00416 is 416, 0.00666 is 666 *)
calculateSSClaimingAdjustment(claimingAge) ==
    IF claimingAge = FRA THEN AdjScale
    ELSE IF claimingAge < FRA
    THEN LET monthsEarly == (FRA - claimingAge) * 12
         IN  IF monthsEarly <= 36
             THEN AdjScale - monthsEarly * 555
             ELSE AdjScale - (36 * 555 + (monthsEarly - 36) * 416)
    ELSE AdjScale + ((claimingAge - FRA) * 12) * 666

(* the estimate taken as the benefit, the factor left analytic *)
calculateSocialSecurityFactorNotBackComputed(c) ==
    LET pia == c.SocialSecurity.EstimatedPIA
        claimingAge == c.SocialSecurity.ClaimingAge
        est == c.SocialSecurity.MonthlyEstimates
        useEstimate == ~est.isNil /\ claimingAge \in DOMAIN est.m
        adjustment == calculateSSClaimingAdjustment(claimingAge)
        monthlyBenefit == IF useEstimate THEN est.m[claimingAge]
                          ELSE (pia * adjustment) \div AdjScale
    IN  [ PIA |-> pia, ClaimingAge |-> claimingAge,
          Adjustment |-> adjustment, MonthlyBenefit |-> monthlyBenefit ]

calculateSocialSecurity(c) ==
    LET pia == c.SocialSecurity.EstimatedPIA
        claimingAge == c.SocialSecurity.ClaimingAge
        est == c.SocialSecurity.MonthlyEstimates
        useEstimate == ~est.isNil /\ claimingAge \in DOMAIN est.m
        adjustment == IF useEstimate
                      THEN (est.m[claimingAge] * AdjScale) \div pia
                      ELSE calculateSSClaimingAdjustment(claimingAge)
        monthlyBenefit == IF useEstimate THEN est.m[claimingAge]
                          ELSE (pia * adjustment) \div AdjScale
    IN  [ PIA |-> pia, ClaimingAge |-> claimingAge,
          Adjustment |-> adjustment, MonthlyBenefit |-> monthlyBenefit ]

NotEligibleSupplement ==
    [ Eligible |-> FALSE, MonthlyAmount |-> 0, StartAge |-> 0, EndAge |-> 0,
      FERSYears |-> 0, SSEstimate |-> 0 ]

(* the age 60 with 20 years condition left out *)
calculateFERSSupplementOnlyAtMRA(c) ==
    IF c.Personal.RetirementSystem # "FERS" \/ c.Retirement.TargetAge >= 62
    THEN NotEligibleSupplement
    ELSE LET service == c.Employment.CreditableService.TotalYears
             a == c.Retirement.TargetAge
             mra == calculateMRA(c)
             eligible == a >= mra /\ service >= 30
             ssEstimate == c.SocialSecurity.EstimatedPIA
         IN  IF ~eligible THEN NotEligibleSupplement
             ELSE [ Eligible |-> TRUE,
                    MonthlyAmount |-> (ssEstimate * service) \div 40,
                    StartAge |-> a, EndAge |-> 62,
                    FERSYears |-> service, SSEstimate |-> ssEstimate ]

calculateFERSSupplement(c) ==
    IF c.Personal.RetirementSystem # "FERS" \/ c.Retirement.TargetAge >= 62
    THEN NotEligibleSupplement
    ELSE LET service == c.Employment.CreditableService.TotalYears
             a == c.Retirement.TargetAge
             mra == calculateMRA(c)
             eligible == (a >= mra /\ service >= 30) \/ (a >= 60 /\ service >= 20)
             ssEstimate == c.SocialSecurity.EstimatedPIA
         IN  IF ~eligible THEN NotEligibleSupplement
             ELSE [ Eligible |-> TRUE,
                    \* (ssEstimate / 40) * fersYears
                    MonthlyAmount |-> (ssEstimate * service) \div 40,
                    StartAge |-> a, EndAge |-> 62,
                    FERSYears |-> service, SSEstimate |-> ssEstimate ]

-----------------------------------------------------------------------------
(* projections.go *)

(* calculateAgeAtRetirement is called by projections.go and defined in no  *)
(* file of the source tree; calculator.go and summary.go read the same age *)
(* as config.Retirement.TargetAge.                                         *)
calculateAgeAtRetirement(c) == c.Retirement.TargetAge

endAge == 95

COLARate == 25           \* 0.025, per thousand
SSCOLARate == 25         \* 0.025, per thousand

(* the nominal rate passed through *)
calculateFERSCOLAUncapped(baseRate) == baseRate

calculateFERSCOLA(baseRate) ==
    IF baseRate <= 20 THEN baseRate
    ELSE IF baseRate <= 30 THEN 20
    ELSE baseRate - 10

calculatePensionIncome(c, pen, currentAge, startAge) ==
    LET basePension == pen.FinalPension
        yearsRetired == currentAge - startAge
        isFERS == c.Personal.RetirementSystem = "FERS"
        colaRate == IF isFERS THEN calculateFERSCOLA(COLARate) ELSE COLARate
    IN  IF yearsRetired < 0 THEN 0
        ELSE IF yearsRetired = 0 THEN basePension
        ELSE IF isFERS /\ currentAge < 62 THEN basePension
        ELSE Compound(basePension, colaRate, MilleScale, yearsRetired)

(* the supplement paid through the end age, not up to it *)
calculateFERSSupplementIncomeThroughEndAge(fersup, currentAge) ==
    IF ~fersup.Eligible \/ currentAge < fersup.StartAge \/ currentAge > fersup.EndAge
    THEN 0
    ELSE fersup.MonthlyAmount * 12

calculateFERSSupplementIncome(fersup, currentAge) ==
    IF ~fersup.Eligible \/ currentAge < fersup.StartAge \/ currentAge >= fersup.EndAge
    THEN 0
    ELSE fersup.MonthlyAmount * 12

(* the benefit paid at its first-year amount in every year *)
calculateSSIncomeWithoutCOLA(ss, currentAge) ==
    IF currentAge < ss.ClaimingAge THEN 0 ELSE ss.MonthlyBenefit * 12

calculateSSIncome(ss, currentAge) ==
    IF currentAge < ss.ClaimingAge THEN 0
    ELSE LET yearsReceiving == currentAge - ss.ClaimingAge
         IN  IF yearsReceiving <= 0 THEN ss.MonthlyBenefit * 12
             ELSE Compound(ss.MonthlyBenefit * 12, SSCOLARate, MilleScale, yearsReceiving)

(* the divisor of the life-expectancy table, in tenths of a year *)
calculateLifeExpectancy(a) ==
    CASE a < 70 -> 274
      [] a < 75 -> 247
      [] a < 80 -> 218
      [] a < 85 -> 191
      [] a < 90 -> 169
      [] a < 95 -> 148
      [] OTHER -> 127

DefaultWithdrawalRate == 4    \* 0.04, in percent

(* the withdrawal with the balance guard of lines 356-358 and the cap of   *)
(* line 363 left out: the fixed amount is paid whatever the pool holds     *)
calculateTSPWithdrawalUnguarded(c, balance, a) ==
    CASE c.TSP.WithdrawalStrategy = "fixed_amount" ->
            (IF c.TSP.WithdrawalAmount > 0 THEN c.TSP.WithdrawalAmount ELSE 0)
      [] c.TSP.WithdrawalStrategy = "life_expectancy" ->
            (balance * 10) \div calculateLifeExpectancy(a)
      [] c.TSP.WithdrawalStrategy = "percentage" ->
            (IF c.TSP.WithdrawalRate > 0
             THEN (balance * c.TSP.WithdrawalRate) \div PctScale
             ELSE (balance * DefaultWithdrawalRate) \div PctScale)
      [] c.TSP.WithdrawalStrategy = "lump_sum" ->
            (IF a = calculateAgeAtRetirement(c) THEN balance ELSE 0)
      [] OTHER -> 0

(* the fixed amount paid without the cap of line 363 *)
calculateTSPWithdrawalUncapped(c, balance, a) ==
    IF balance <= 0 THEN 0
    ELSE CASE c.TSP.WithdrawalStrategy = "fixed_amount" ->
                (IF c.TSP.WithdrawalAmount > 0 THEN c.TSP.WithdrawalAmount ELSE 0)
           [] c.TSP.WithdrawalStrategy = "life_expectancy" ->
                (balance * 10) \div calculateLifeExpectancy(a)
           [] c.TSP.WithdrawalStrategy = "percentage" ->
                (IF c.TSP.WithdrawalRate > 0
                 THEN (balance * c.TSP.WithdrawalRate) \div PctScale
                 ELSE (balance * DefaultWithdrawalRate) \div PctScale)
           [] c.TSP.WithdrawalStrategy = "lump_sum" ->
                (IF a = calculateAgeAtRetirement(c) THEN balance ELSE 0)
           [] OTHER -> 0

(* the lump sum taken in every year, not only in the retirement year       *)
calculateTSPWithdrawalLumpSumEveryYear(c, balance, a) ==
    IF balance <= 0 THEN 0
    ELSE CASE c.TSP.WithdrawalStrategy = "fixed_amount" ->
                (IF c.TSP.WithdrawalAmount > 0
                 THEN Min(c.TSP.WithdrawalAmount, balance) ELSE 0)
           [] c.TSP.WithdrawalStrategy = "life_expectancy" ->
                (balance * 10) \div calculateLifeExpectancy(a)
           [] c.TSP.WithdrawalStrategy = "percentage" ->
                (IF c.TSP.WithdrawalRate > 0
                 THEN (balance * c.TSP.WithdrawalRate) \div PctScale
                 ELSE (balance * DefaultWithdrawalRate) \div PctScale)
           [] c.TSP.WithdrawalStrategy = "lump_sum" -> balance
           [] OTHER -> 0

calculateTSPWithdrawal(c, balance, a) ==
    IF balance <= 0 THEN 0
    ELSE CASE c.TSP.WithdrawalStrategy = "fixed_amount" ->
                (IF c.TSP.WithdrawalAmount > 0
                 THEN Min(c.TSP.WithdrawalAmount, balance) ELSE 0)
           [] c.TSP.WithdrawalStrategy = "life_expectancy" ->
                (balance * 10) \div calculateLifeExpectancy(a)
           [] c.TSP.WithdrawalStrategy = "percentage" ->
                (IF c.TSP.WithdrawalRate > 0
                 THEN (balance * c.TSP.WithdrawalRate) \div PctScale
                 ELSE (balance * DefaultWithdrawalRate) \div PctScale)
           [] c.TSP.WithdrawalStrategy = "lump_sum" ->
                (IF a = calculateAgeAtRetirement(c) THEN balance ELSE 0)
           [] OTHER -> 0

calculateTaxableSS(ssBenefit, grossIncome) ==
    IF ssBenefit = 0 THEN 0
    ELSE LET provisionalIncome == grossIncome - ssBenefit + ssBenefit \div 2
         IN  IF provisionalIncome <= 25000 THEN 0
             ELSE IF provisionalIncome <= 34000
             THEN Min(ssBenefit \div 2, (provisionalIncome - 25000) \div 2)
             ELSE Min((ssBenefit * 85) \div PctScale,
                      ((provisionalIncome - 34000) * 85) \div PctScale + 4500)

(* the bracket table; top marks the band whose max is +Inf *)
TaxBrackets ==
    << [min |-> 0,      max |-> 11000,  rate |-> 10, top |-> FALSE],
       [min |-> 11000,  max |-> 44725,  rate |-> 12, top |-> FALSE],
       [min |-> 44725,  max |-> 95375,  rate |-> 22, top |-> FALSE],
       [min |-> 95375,  max |-> 182050, rate |-> 24, top |-> FALSE],
       [min |-> 182050, max |-> 231250, rate |-> 32, top |-> FALSE],
       [min |-> 231250, max |-> 578125, rate |-> 35, top |-> FALSE],
       [min |-> 578125, max |-> 578125, rate |-> 37, top |-> TRUE] >>

RECURSIVE TaxFromBracket(_, _)
TaxFromBracket(income, k) ==
    IF k > Len(TaxBrackets) THEN 0
    ELSE LET b == TaxBrackets[k]
         IN  IF income <= b.min THEN 0     \* break
             ELSE LET upper == IF b.top THEN income ELSE Min(income, b.max)
                  IN  ((upper - b.min) * b.rate) \div PctScale
                      + TaxFromBracket(income, k + 1)

calculateTaxBrackets(income) == TaxFromBracket(income, 1)

StandardDeduction == 14700
SeniorDeduction == 1850

calculateFederalTax(p, a) ==
    LET standardDeduction == IF a >= 65 THEN StandardDeduction + SeniorDeduction
                             ELSE StandardDeduction
        taxableIncome == p.PensionIncome + p.TSPWithdrawal
                         + calculateTaxableSS(p.SocialSecurityIncome, p.GrossIncome)
                         - standardDeduction
    IN  IF taxableIncome <= 0 THEN 0 ELSE calculateTaxBrackets(taxableIncome)

NoIncomeTaxStates == {"FL", "TX", "NV", "AK", "SD", "WY", "WA", "TN", "NH"}

(* StateTaxRate is held in percent; 0.0307 and 0.0495 per ten thousand *)
calculateStateTax(c, p, a) ==
    IF c.TaxInfo.StateTaxRate > 0
    THEN LET t1 == IF c.TaxInfo.PensionTaxExempt
                   THEN p.GrossIncome - p.PensionIncome ELSE p.GrossIncome
             taxableIncome == IF c.TaxInfo.SSTaxExempt
                              THEN t1 - p.SocialSecurityIncome ELSE t1
         IN  IF taxableIncome <= 0 THEN 0
             ELSE (taxableIncome * c.TaxInfo.StateTaxRate) \div PctScale
    ELSE CASE c.TaxInfo.State \in NoIncomeTaxStates -> 0
           [] c.TaxInfo.State = "PA" -> (p.TSPWithdrawal * 307) \div BpScale
           [] c.TaxInfo.State = "IL" ->
                (IF a >= 65 THEN (p.TSPWithdrawal * 495) \div BpScale
                 ELSE (p.GrossIncome * 495) \div BpScale)
           [] OTHER -> (p.GrossIncome * 5) \div PctScale

DefaultHealthPremium == 4800
DefaultPremiumCOLA == 3       \* 1.03, in percent

calculateHealthInsurance(c, a) ==
    LET yearsRetired == a - calculateAgeAtRetirement(c)
    IN  IF c.HealthInsurance.RetirementPremium > 0
        THEN (IF c.HealthInsurance.PremiumCOLA > 0 /\ yearsRetired > 0
              THEN Compound(c.HealthInsurance.RetirementPremium,
                            c.HealthInsurance.PremiumCOLA, PctScale, yearsRetired)
              ELSE c.HealthInsurance.RetirementPremium)
        ELSE (IF yearsRetired > 0
              THEN Compound(DefaultHealthPremium, DefaultPremiumCOLA, PctScale, yearsRetired)
              ELSE DefaultHealthPremium)

calculateLifeInsurance(a) == 600

calculateCOLA(a, startAge) == COLARate

(* the pool after one year with the floor of lines 263-265 left out *)
UpdateTSPBalanceNoFloor(balance, tspGrowth, withdrawal) ==
    balance + tspGrowth - withdrawal

(* the pool after one year with the year's growth left out *)
UpdateTSPBalanceWithoutGrowth(balance, tspGrowth, withdrawal) ==
    LET b == balance - withdrawal
    IN  IF b < 0 THEN 0 ELSE b

(* lines 261-265: the pool after one year *)
UpdateTSPBalance(balance, tspGrowth, withdrawal) ==
    LET b == balance + tspGrowth - withdrawal
    IN  IF b < 0 THEN 0 ELSE b

(* lines 271-274: the gross income of a record *)
GrossIncomeOf(pensionIncome, supplementIncome, ssIncome, withdrawal) ==
    pensionIncome + supplementIncome + ssIncome + withdrawal

(* the pool taken from the stated total, not from its components *)
InitialTSPBalanceFromCurrentBalance(c) == c.TSP.CurrentBalance

(* lines 239-240: the pool at retirement *)
InitialTSPBalance(c) == c.TSP.TraditionalBalance + c.TSP.RothBalance

(* lines 243-244: the calendar year, from two reads of the clock *)
ProjectionYear(c, a, now1, now2) ==
    LET currentAge == now1 - c.Personal.BirthYear
    IN  now2 + (a - currentAge)

(* One iteration of the loop of generateAnnualProjections: the record it   *)
(* appends.  now1 and now2 are the two values time.Now().Year() returns.   *)
(* incomes holds the fields of the record that are set when the taxes are  *)
(* computed (lines 277-278) and that the tax functions read.               *)
ProjectOneYear(c, pen, ss, fersup, a, startAge, balance, now1, now2) ==
    LET pensionIncome == calculatePensionIncome(c, pen, a, startAge)
        supplementIncome == calculateFERSSupplementIncome(fersup, a)
        ssIncome == calculateSSIncome(ss, a)
        withdrawal == calculateTSPWithdrawal(c, balance, a)
        tspGrowth == (balance * c.TSP.GrowthRate) \div PctScale
        grossIncome == GrossIncomeOf(pensionIncome, supplementIncome, ssIncome, withdrawal)
        incomes == [ PensionIncome |-> pensionIncome,
                     SocialSecurityIncome |-> ssIncome,
                     TSPWithdrawal |-> withdrawal,
                     GrossIncome |-> grossIncome ]
        federalTax == calculateFederalTax(incomes, a)
        stateTax == calculateStateTax(c, incomes, a)
        healthInsurance == calculateHealthInsurance(c, a)
        lifeInsurance == calculateLifeInsurance(a)
        totalDeductions == federalTax + stateTax + healthInsurance + lifeInsurance
    IN  [ Year |-> ProjectionYear(c, a, now1, now2),
          Age |-> a,
          PensionIncome |-> pensionIncome,
          FERSSupplementIncome |-> supplementIncome,
          SocialSecurityIncome |-> ssIncome,
          TSPWithdrawal |-> withdrawal,
          OtherIncome |-> 0,
          GrossIncome |-> grossIncome,
          FederalTax |-> federalTax,
          StateTax |-> stateTax,
          HealthInsurance |-> healthInsurance,
          LifeInsurance |-> lifeInsurance,
          TotalDeductions |-> totalDeductions,
          NetIncome |-> grossIncome - totalDeductions,
          TSPStartBalance |-> balance,
          TSPGrowth |-> tspGrowth,
          TSPEndBalance |-> UpdateTSPBalance(balance, tspGrowth, withdrawal),
          COLARate |-> calculateCOLA(a, startAge),
          InflationRate |-> 25 ]

-----------------------------------------------------------------------------
(* summary.go *)

RatioScale == 1000       \* the replacement ratio, per thousand

RECURSIVE calculateLifetimeIncome(_)
calculateLifetimeIncome(ps) ==
    IF ps = << >> THEN 0
    ELSE Head(ps).NetIncome + calculateLifetimeIncome(Tail(ps))

calculateReplacementRatio(c, firstYear) ==
    (firstYear.NetIncome * RatioScale) \div c.Employment.CurrentSalary

(* the first record with an empty pool, whether or not it began the year   *)
(* with anything in it                                                     *)
RECURSIVE findTSPDepletionAgeWithoutStartCheck(_)
findTSPDepletionAgeWithoutStartCheck(ps) ==
    IF ps = << >> THEN 0
    ELSE IF Head(ps).TSPEndBalance <= 0
         THEN Head(ps).Age
         ELSE findTSPDepletionAgeWithoutStartCheck(Tail(ps))

RECURSIVE findTSPDepletionAge(_)
findTSPDepletionAge(ps) ==
    IF ps = << >> THEN 0
    ELSE IF Head(ps).TSPEndBalance <= 0 /\ Head(ps).TSPStartBalance > 0
         THEN Head(ps).Age
         ELSE findTSPDepletionAge(Tail(ps))

ZeroSummary ==
    [ MonthlyPension |-> 0, AnnualPension |-> 0, PensionReductionPct |-> 0,
      SurvivorBenefitCost |-> 0, NetMonthlyPension |-> 0,
      FERSSupplement |-> 0, SupplementEndAge |-> 0,
      MonthlySocialSecurity |-> 0, SocialSecurityStartAge |-> 0,
      TSPStartingBalance |-> 0, TSPProjectedDepletion |-> 0,
      FirstYearIncome |-> 0, LifetimeIncome |-> 0, ReplacementRatio |-> 0 ]

createSummary(c, pen, ss, fersup, ps) ==
    [ MonthlyPension |-> pen.FinalPension \div 12,
      AnnualPension |-> pen.FinalPension,
      PensionReductionPct |-> pen.ReductionPercent,
      SurvivorBenefitCost |-> pen.SurvivorCost,
      NetMonthlyPension |-> pen.FinalPension \div 12,
      MonthlySocialSecurity |-> ss.MonthlyBenefit,
      SocialSecurityStartAge |-> ss.ClaimingAge,
      TSPStartingBalance |-> c.TSP.CurrentBalance,
      FERSSupplement |-> IF fersup.Eligible THEN fersup.MonthlyAmount ELSE 0,
      SupplementEndAge |-> IF fersup.Eligible THEN fersup.EndAge ELSE 0,
      FirstYearIncome |-> IF Len(ps) > 0 THEN ps[1].NetIncome ELSE 0,
      LifetimeIncome |-> IF Len(ps) > 0 THEN calculateLifetimeIncome(ps) ELSE 0,
      ReplacementRatio |-> IF Len(ps) > 0 THEN calculateReplacementRatio(c, ps[1]) ELSE 0,
      TSPProjectedDepletion |-> findTSPDepletionAge(ps) ]

checkRetirementEligibility(c) ==
    LET a == c.Retirement.TargetAge
        service == c.Employment.CreditableService.TotalYears
    IN  IF c.Personal.RetirementSystem = "FERS"
        THEN \/ a >= 62 /\ service >= 5
             \/ a >= 60 /\ service >= 20
             \/ a >= calculateMRA(c) /\ service >= 30
             \/ a >= calculateMRA(c) /\ service >= 10
        ELSE \/ a >= 62 /\ service >= 5
             \/ a >= 60 /\ service >= 20
             \/ a >= 55 /\ service >= 30

WarnEligibility == "Retirement eligibility requirements may not be met"
WarnTSPBalance == "TSP balance components don't add up to total balance"
WarnHigh3 == "High-3 salary appears significantly lower than current salary"
WarnEarly == "Early retirement will result in reduced pension benefits"

(* each check of generateWarnings: the warnings it appends *)
EligibilityWarning(c) ==
    IF ~checkRetirementEligibility(c) THEN << WarnEligibility >> ELSE << >>

TSPBalanceWarning(c) ==
    IF c.TSP.CurrentBalance # c.TSP.TraditionalBalance + c.TSP.RothBalance
    THEN << WarnTSPBalance >> ELSE << >>

(* High3Salary < CurrentSalary*0.9 *)
High3Warning(c) ==
    IF c.Employment.High3Salary * 10 < c.Employment.CurrentSalary * 9
    THEN << WarnHigh3 >> ELSE << >>

(* the early-retirement check against age 60 *)
EarlyRetirementWarningAtSixty(c) ==
    IF c.Retirement.TargetAge < 60 THEN << WarnEarly >> ELSE << >>

EarlyRetirementWarning(c) ==
    IF c.Retirement.TargetAge < 62 THEN << WarnEarly >> ELSE << >>

generateWarnings(c) ==
    EligibilityWarning(c) \o TSPBalanceWarning(c) \o High3Warning(c)
        \o EarlyRetirementWarning(c)

createMetadata(c, clock) ==
    [ CalculationDate |-> clock,
      ConfigVersion |-> "1.0",
      CalculationEngine |-> "ferex-cli-v1.0",
      Assumptions |-> [ InflationRate |-> 25,
                        TSPGrowthRate |-> c.TSP.GrowthRate,
                        LifeExpectancy |-> 95,
                        FERSCOLARate |-> 25,
                        SocialSecurityCOLA |-> 25,
                        TaxBracketYear |-> 2025 ],
      Warnings |-> generateWarnings(c) ]

(* strconv.Atoi on an age string, a sequence of characters: an optional    *)
(* sign, then one or more decimal digits.                                  *)
DigitValue ==
    [ d \in {"0", "1", "2", "3", "4", "5", "6", "7", "8", "9"} |->
        CASE d = "0" -> 0 [] d = "1" -> 1 [] d = "2" -> 2 [] d = "3" -> 3
          [] d = "4" -> 4 [] d = "5" -> 5 [] d = "6" -> 6 [] d = "7" -> 7
          [] d = "8" -> 8 [] OTHER -> 9 ]

RECURSIVE ParseDigits(_, _)
ParseDigits(str, acc) ==
    IF str = << >> THEN [ok |-> TRUE, value |-> acc]
    ELSE IF Head(str) \notin DOMAIN DigitValue THEN [ok |-> FALSE, value |-> 0]
    ELSE ParseDigits(Tail(str), acc * 10 + DigitValue[Head(str)])

Atoi(str) ==
    LET signed == str # << >> /\ Head(str) \in {"+", "-"}
        digits == IF signed THEN Tail(str) ELSE str
        parsed == IF digits = << >> THEN [ok |-> FALSE, value |-> 0]
                  ELSE ParseDigits(digits, 0)
    IN  IF parsed.ok /\ signed /\ Head(str) = "-"
        THEN [ok |-> TRUE, value |-> 0 - parsed.value]
        ELSE parsed

(* the loop with the i == 0 seeding of the worst values left out: they     *)
(* start at 0 and only ever go down                                        *)
RECURSIVE MetricsLoopUnseededWorst(_, _, _)
MetricsLoopUnseededWorst(rs, k, acc) ==
    IF k > Len(rs) THEN acc
    ELSE LET lifetime == rs[k].Summary.LifetimeIncome
             replacement == rs[k].Summary.ReplacementRatio
             newBest == k = 1 \/ lifetime > acc.bestLifetimeIncome
         IN  MetricsLoopUnseededWorst(rs, k + 1,
               [ bestLifetimeIncome |->
                    IF newBest THEN lifetime ELSE acc.bestLifetimeIncome,
                 BestLifetimeIncome |->
                    IF newBest THEN rs[k].Summary ELSE acc.BestLifetimeIncome,
                 worstLifetimeIncome |->
                    IF lifetime < acc.worstLifetimeIncome
                    THEN lifetime ELSE acc.worstLifetimeIncome,
                 bestReplacementRatio |->
                    IF k = 1 \/ replacement > acc.bestReplacementRatio
                    THEN replacement ELSE acc.bestReplacementRatio,
                 worstReplacementRatio |->
                    IF replacement < acc.worstReplacementRatio
                    THEN replacement ELSE acc.worstReplacementRatio ])

(* The loop of calculateComparisonMetrics over results[k..]: acc carries   *)
(* the best/worst values and metrics.BestLifetimeIncome found so far.      *)
RECURSIVE MetricsLoop(_, _, _)
MetricsLoop(rs, k, acc) ==
    IF k > Len(rs) THEN acc
    ELSE LET lifetime == rs[k].Summary.LifetimeIncome
             replacement == rs[k].Summary.ReplacementRatio
             newBest == k = 1 \/ lifetime > acc.bestLifetimeIncome
         IN  MetricsLoop(rs, k + 1,
               [ bestLifetimeIncome |->
                    IF newBest THEN lifetime ELSE acc.bestLifetimeIncome,
                 BestLifetimeIncome |->
                    IF newBest THEN rs[k].Summary ELSE acc.BestLifetimeIncome,
                 worstLifetimeIncome |->
                    IF k = 1 \/ lifetime < acc.worstLifetimeIncome
                    THEN lifetime ELSE acc.worstLifetimeIncome,
                 bestReplacementRatio |->
                    IF k = 1 \/ replacement > acc.bestReplacementRatio
                    THEN replacement ELSE acc.bestReplacementRatio,
                 worstReplacementRatio |->
                    IF k = 1 \/ replacement < acc.worstReplacementRatio
                    THEN replacement ELSE acc.worstReplacementRatio ])

calculateComparisonMetrics(rs) ==
    IF Len(rs) = 0
    THEN [ ScenarioCount |-> 0, BestLifetimeIncome |-> ZeroSummary,
           LifetimeIncomeSpread |-> 0, ReplacementRatioSpread |-> 0 ]
    ELSE LET acc == MetricsLoop(rs, 1,
                      [ bestLifetimeIncome |-> 0, BestLifetimeIncome |-> ZeroSummary,
                        worstLifetimeIncome |-> 0, bestReplacementRatio |-> 0,
                        worstReplacementRatio |-> 0 ])
         IN  [ ScenarioCount |-> Len(rs),
               BestLifetimeIncome |-> acc.BestLifetimeIncome,
               LifetimeIncomeSpread |-> acc.bestLifetimeIncome - acc.worstLifetimeIncome,
               ReplacementRatioSpread |->
                   acc.bestReplacementRatio - acc.worstReplacementRatio ]

(* the loop left at the bad age, the scenarios computed so far compared *)
BreakOnAtoiError(rs) ==
    [ comparison |-> << [ Scenarios |-> rs,
                          ComparisonMetrics |-> calculateComparisonMetrics(rs) ] >>,
      err |-> "nil" ]

(* if err != nil { return nil, err }: what CompareRetirementAges returns   *)
(* when strconv.Atoi fails, rs being the scenarios computed so far         *)
ReturnOnAtoiError(rs) ==
    [ comparison |-> << >>, err |-> "strconv.Atoi: invalid syntax" ]

(* configCopy := baseConfig; configCopy.Retirement.TargetAge = age: the    *)
(* pointer is copied, so the assignment lands in the caller's struct       *)
OverrideTargetAgeAliased(base, a) ==
    [ base |-> [base EXCEPT !.Retirement.TargetAge = a],
      copy |-> [base EXCEPT !.Retirement.TargetAge = a] ]

(* configCopy := *baseConfig; configCopy.Retirement.TargetAge = age:       *)
(* the two storages afterwards.  The struct is copied by value, so the     *)
(* assignment lands in the copy.                                           *)
OverrideTargetAge(base, a) ==
    [ base |-> base, copy |-> [base EXCEPT !.Retirement.TargetAge = a] ]

-----------------------------------------------------------------------------
(* The profiles and age lists the engine is run on *)

MaxAges == 2             \* longest ageStrings list
ClockStart == 2025       \* the year the wall clock starts in
MaxTicks == 1            \* new years the wall clock may pass

NoEstimates == [isNil |-> TRUE, m |-> << >>]

(* createTestConfig of calculator_test.go, with the fields below varied *)
Profile(system, strategy, growth, targetAge, traditional, roth, current, years, high3, survivor) ==
    [ Personal |-> [ BirthYear |-> 1967, RetirementSystem |-> system ],
      Employment |-> [ CurrentSalary |-> 85000, High3Salary |-> high3,
                       CreditableService |-> [ TotalYears |-> years ] ],
      Retirement |-> [ TargetAge |-> targetAge, SurvivorBenefit |-> survivor ],
      TSP |-> [ CurrentBalance |-> current,
                TraditionalBalance |-> traditional,
                RothBalance |-> roth,
                WithdrawalStrategy |-> strategy,
                WithdrawalAmount |-> IF strategy = "fixed_amount" THEN 300000 ELSE 0,
                WithdrawalRate |-> IF strategy = "percentage" THEN 4 ELSE 0,
                GrowthRate |-> growth ],
      SocialSecurity |-> [ EstimatedPIA |-> 2800, ClaimingAge |-> 67,
                           MonthlyEstimates |-> NoEstimates ],
      HealthInsurance |-> [ RetirementPremium |-> 0, PremiumCOLA |-> 0 ],
      TaxInfo |-> [ State |-> "", StateTaxRate |-> 0,
                    PensionTaxExempt |-> FALSE, SSTaxExempt |-> FALSE ] ]

(* "MILITARY" and "annuity" are tags the engine does not know *)
Systems == {"FERS", "CSRS", "MILITARY"}
Strategies == {"fixed_amount", "life_expectancy", "percentage", "lump_sum", "annuity"}
GrowthRates == {-60, 0, 7}

StrategyProfiles ==
    { Profile(sy, st, g, a, b[1], b[2], b[1] + b[2], 25, 82000, "full") :
        sy \in Systems, st \in Strategies, g \in GrowthRates, a \in {57, 62},
        b \in { <<400000, 100000>>, <<0, 0>> } }

AnomalyProfiles ==
    { Profile(sy, "life_expectancy", 7, a, 400000, 100000, cur, y, h, "none") :
        sy \in Systems, a \in {57, 60, 62}, cur \in {500000, 450000},
        y \in {4, 25, 30}, h \in {82000, 60000} }

CalcProfiles == StrategyProfiles \cup AnomalyProfiles

CompareProfiles ==
    { Profile("FERS", "life_expectancy", 7, 62, 400000, 100000, 500000, 25, 82000, "full"),
      Profile("CSRS", "lump_sum", 0, 60, 400000, 100000, 500000, 30, 82000, "partial") }

AgeStringSet ==
    { <<"5", "7">>, <<"6", "2">>, <<"9", "3">>, <<"9", "6">>, <<"6", "x">>, << >> }

AgeLists(S) == UNION { [1..n -> S] : n \in 0..MaxAges }

NoPension ==
    [ BasePension |-> 0, ReductionPercent |-> 0, AdjustedPension |-> 0,
      SurvivorCost |-> 0, FinalPension |-> 0, err |-> "nil" ]
NoSocialSecurity ==
    [ PIA |-> 0, ClaimingAge |-> 0, Adjustment |-> 0, MonthlyBenefit |-> 0 ]

Idle ==
    /\ now = ClockStart
    /\ pc = "start"
    /\ i = 1
    /\ configCopy = << >>
    /\ calcConfig = "base"
    /\ pension = NoPension
    /\ socialSecurity = NoSocialSecurity
    /\ ferssupplement = NotEligibleSupplement
    /\ age = 0
    /\ tspBalance = 0
    /\ projections = << >>
    /\ results = << >>
    /\ comparison = << >>
    /\ err = "nil"

(* no evaluator is applied on its own: the engine runs *)
NoEvaluator ==
    /\ fn = "none"
    /\ args = << >>
    /\ out = << >>

Init ==
    /\ \/ /\ op = "calc"
          /\ baseConfig \in CalcProfiles
          /\ ageStrings = << >>
       \/ /\ op = "compare"
          /\ baseConfig \in CompareProfiles
          /\ ageStrings \in AgeLists(AgeStringSet)
    /\ Idle
    /\ NoEvaluator

-----------------------------------------------------------------------------
(* The engine *)

(* c.config: the storage the calculator points at *)
Config == IF calcConfig = "base" THEN baseConfig ELSE configCopy[1]

(* main.go runCalc: calc.NewCalculator(cfg), then Calculate *)
RunCalc ==
    /\ pc = "start" /\ op = "calc"
    /\ calcConfig' = "base"
    /\ pc' = "calculate"
    /\ UNCHANGED << fn, args, out, op, baseConfig, ageStrings, now, i, configCopy, pension,
                    socialSecurity, ferssupplement, age, tspBalance,
                    projections, results, comparison, err >>

AtLoopHead == op = "compare" /\ pc \in {"start", "loop"}

(* CompareRetirementAges, lines 153-157: strconv.Atoi fails *)
CompareParseError ==
    /\ AtLoopHead /\ i <= Len(ageStrings)
    /\ ~Atoi(ageStrings[i]).ok
    /\ err' = ReturnOnAtoiError(results).err
    /\ comparison' = ReturnOnAtoiError(results).comparison
    /\ pc' = "done"
    /\ UNCHANGED << fn, args, out, op, baseConfig, ageStrings, now, i, configCopy, calcConfig,
                    pension, socialSecurity, ferssupplement, age, tspBalance,
                    projections, results >>

(* CompareRetirementAges, lines 153-164: one scenario is set up *)
CompareScenario ==
    /\ AtLoopHead /\ i <= Len(ageStrings)
    /\ Atoi(ageStrings[i]).ok
    /\ LET after == OverrideTargetAge(baseConfig, Atoi(ageStrings[i]).value)
       IN  /\ baseConfig' = after.base
           /\ configCopy' = << after.copy >>
    /\ calcConfig' = "copy"
    /\ pc' = "calculate"
    /\ UNCHANGED << fn, args, out, op, ageStrings, now, i, pension, socialSecurity,
                    ferssupplement, age, tspBalance, projections, results,
                    comparison, err >>

(* CompareRetirementAges, lines 175-182: the comparison is returned *)
CompareReturn ==
    /\ AtLoopHead /\ i > Len(ageStrings)
    /\ comparison' = << [ Scenarios |-> results,
                          ComparisonMetrics |-> calculateComparisonMetrics(results) ] >>
    /\ pc' = "done"
    /\ UNCHANGED << fn, args, out, op, baseConfig, ageStrings, now, i, configCopy, calcConfig,
                    pension, socialSecurity, ferssupplement, age, tspBalance,
                    projections, results, err >>

(* Calculate, lines 23-32, and generateAnnualProjections, lines 234-240 *)
BeginCalculate ==
    /\ pc = "calculate"
    /\ LET pen == calculatePension(Config)
       IN  IF pen.err # "nil"
           THEN /\ err' = "pension calculation failed"
                /\ pc' = "done"
                /\ UNCHANGED << pension, socialSecurity, ferssupplement, age,
                                tspBalance, projections >>
           ELSE /\ pension' = pen
                /\ socialSecurity' = calculateSocialSecurity(Config)
                /\ ferssupplement' = calculateFERSSupplement(Config)
                /\ age' = calculateAgeAtRetirement(Config)
                /\ tspBalance' = InitialTSPBalance(Config)
                /\ projections' = << >>
                /\ pc' = "project"
                /\ err' = err
    /\ UNCHANGED << fn, args, out, op, baseConfig, ageStrings, now, i, configCopy, calcConfig,
                    results, comparison >>

(* the loop condition written age < endAge *)
LoopStopsOneShort(a) == a < endAge

(* the loop condition of line 242 *)
LoopContinues(a) == a <= endAge

(* generateAnnualProjections, lines 242-294: one iteration; now1 and now2  *)
(* are the years the two calls of time.Now() return                        *)
ProjectYearAt(now1, now2) ==
    /\ pc = "project" /\ LoopContinues(age)
    /\ LET p == ProjectOneYear(Config, pension, socialSecurity, ferssupplement,
                               age, calculateAgeAtRetirement(Config), tspBalance,
                               now1, now2)
       IN  /\ projections' = Append(projections, p)
           /\ tspBalance' = p.TSPEndBalance
    /\ age' = age + 1
    /\ now' = now2
    /\ UNCHANGED << fn, args, out, op, baseConfig, ageStrings, pc, i, configCopy, calcConfig,
                    pension, socialSecurity, ferssupplement, results,
                    comparison, err >>

(* both reads of the clock fall in the same year *)
ProjectYear == ProjectYearAt(now, now)

(* the year changes between the read of line 243 and the read of line 244 *)
ProjectYearAcrossNewYear ==
    /\ now < ClockStart + MaxTicks
    /\ ProjectYearAt(now, now + 1)

(* the wall clock passes a new year while the engine is between iterations *)
Tick ==
    /\ now < ClockStart + MaxTicks
    /\ pc # "done"
    /\ now' = now + 1
    /\ UNCHANGED << fn, args, out, op, baseConfig, ageStrings, pc, i, configCopy, calcConfig,
                    pension, socialSecurity, ferssupplement, age, tspBalance,
                    projections, results, comparison, err >>

(* generateAnnualProjections, line 296, and Calculate, lines 41-50; the    *)
(* caller then has the result (runCalc) or appends it and moves to the     *)
(* next age (CompareRetirementAges, line 172)                              *)
FinishCalculate ==
    /\ pc = "project" /\ ~LoopContinues(age)
    /\ results' = Append(results,
          [ Summary |-> createSummary(Config, pension, socialSecurity,
                                      ferssupplement, projections),
            AnnualProjections |-> projections,
            Metadata |-> createMetadata(Config, now) ])
    /\ IF op = "calc"
       THEN pc' = "done" /\ i' = i
       ELSE pc' = "loop" /\ i' = i + 1
    /\ UNCHANGED << fn, args, out, op, baseConfig, ageStrings, now, configCopy, calcConfig,
                    pension, socialSecurity, ferssupplement, age, tspBalance,
                    projections, comparison, err >>

Next ==
    \/ RunCalc
    \/ CompareParseError
    \/ CompareScenario
    \/ CompareReturn
    \/ BeginCalculate
    \/ ProjectYear
    \/ FinishCalculate

Spec == Init /\ [][Next]_vars

(* The engine keeps running until it returns: weak fairness of Next,      *)
(* WF_vars(Next), written out as []<>~ENABLED <<Next>>_vars \/            *)
(* []<><<Next>>_vars with ENABLED <<Next>>_vars stated as the predicate it *)
(* equals in this engine, Running: a step is possible exactly until the    *)
(* entry point has returned.                                               *)
Running == pc # "done"

FairSpec == Spec /\ ([]<>(~Running) \/ []<><<Next>>_vars)

(* The engine under a wall clock that moves: short horizons, every clock   *)
(* read taken separately.                                                  *)
ClockProfiles ==
    { Profile(sy, "life_expectancy", 7, a, 400000, 100000, 500000, 25, 82000, "full") :
        sy \in {"FERS", "CSRS"}, a \in {92, 93} }

ClockAgeStrings == { <<"9", "3">>, <<"9", "4">>, <<"9", "x">> }

InitClock ==
    /\ \/ /\ op = "calc"
          /\ baseConfig \in ClockProfiles
          /\ ageStrings = << >>
       \/ /\ op = "compare"
          /\ baseConfig \in ClockProfiles
          /\ ageStrings \in AgeLists(ClockAgeStrings)
    /\ Idle
    /\ NoEvaluator

NextClock ==
    \/ Next
    \/ ProjectYearAcrossNewYear
    \/ Tick

SpecClock == InitClock /\ [][NextClock]_vars

(* calculatePension on its own, applied to profiles drawn from a product  *)
(* of regimes, retirement ages, service lengths, salaries and elections.   *)
PensionProfiles ==
    { Profile(sy, "life_expectancy", 7, a, 400000, 100000, 500000, y, h, sv) :
        sy \in Systems, a \in {55, 57, 60, 62, 65}, y \in {4, 10, 20, 25, 30, 42},
        h \in {30000, 60000, 82000}, sv \in {"none", "partial", "full"} }

InitPension ==
    /\ op = "pension"
    /\ baseConfig \in PensionProfiles
    /\ ageStrings = << >>
    /\ Idle
    /\ NoEvaluator

(* calc.NewCalculator(cfg) and calculatePension, lines 54-84 *)
ComputePension ==
    /\ pc = "start" /\ op = "pension"
    /\ calcConfig' = "base"
    /\ pension' = calculatePension(baseConfig)
    /\ pc' = "done"
    /\ UNCHANGED << fn, args, out, op, baseConfig, ageStrings, now, i, configCopy,
                    socialSecurity, ferssupplement, age, tspBalance,
                    projections, results, comparison, err >>

NextPension == ComputePension

SpecPension == InitPension /\ [][NextPension]_vars

-----------------------------------------------------------------------------
(* The once-per-scenario evaluators applied on their own: fn names the     *)
(* evaluator, args holds its arguments, out its return value.              *)

engineVars == << op, baseConfig, ageStrings, now, pc, i, configCopy, calcConfig,
                 pension, socialSecurity, ferssupplement, age, tspBalance,
                 projections, results, comparison, err >>

(* createTestConfig, the fields an evaluator reads set by the caller *)
TestConfig == Profile("FERS", "life_expectancy", 7, 62, 400000, 100000, 500000, 25, 82000, "full")

ServiceYears == 0..40
RetirementAges == 53..65
High3Salaries == {40000, 82000, 120000}

Returned == out # << >>

FERSPensionInputs ==
    { [ fn |-> "calculateFERSPension",
        args |-> [ service |-> y, high3 |-> h, age |-> a ] ] :
        y \in ServiceYears, h \in High3Salaries, a \in RetirementAges }

ApplyFERSPension ==
    /\ fn = "calculateFERSPension" /\ ~Returned
    /\ out' = << calculateFERSPension(args.service, args.high3, args.age) >>
    /\ UNCHANGED << fn, args, engineVars >>

CSRSPensionInputs ==
    { [ fn |-> "calculateCSRSPension", args |-> [ service |-> y, high3 |-> h ] ] :
        y \in ServiceYears, h \in High3Salaries }

ApplyCSRSPension ==
    /\ fn = "calculateCSRSPension" /\ ~Returned
    /\ out' = << calculateCSRSPension(args.service, args.high3) >>
    /\ UNCHANGED << fn, args, engineVars >>

(* post-reduction annuities, in steps that keep every product exact *)
MaxAnnuitySteps == 150
Annuities == { 400 * k : k \in 0..MaxAnnuitySteps }
Elections == {"full", "partial", "none", ""}

(* profiles that differ in regime and election, and in fields the survivor *)
(* cost does not read                                                      *)
SurvivorConfigs ==
    { [TestConfig EXCEPT !.Personal.RetirementSystem = sy,
                         !.Retirement.SurvivorBenefit = sv,
                         !.Retirement.TargetAge = a] :
        sy \in {"FERS", "CSRS"}, sv \in Elections, a \in {57, 62} }

SurvivorCostInputs ==
    { [ fn |-> "calculateSurvivorBenefitCost", args |-> [ c |-> c, pension |-> p ] ] :
        c \in SurvivorConfigs, p \in Annuities }

ApplySurvivorBenefitCost ==
    /\ fn = "calculateSurvivorBenefitCost" /\ ~Returned
    /\ out' = << calculateSurvivorBenefitCost(args.c, args.pension) >>
    /\ UNCHANGED << fn, args, engineVars >>

ClaimingAges == 62..70
FullBenefits == {2000, 2800}

(* SocialSecurity.MonthlyEstimates: absent, empty, the map of the          *)
(* templates (templates.go, lines 42-46), and a map whose estimates do not *)
(* follow the claiming age                                                 *)
EstimateMaps ==
    { NoEstimates,
      [isNil |-> FALSE, m |-> << >>],
      [isNil |-> FALSE, m |-> (62 :> 2240 @@ 67 :> 2800 @@ 70 :> 3472)],
      [isNil |-> FALSE, m |-> (64 :> 2940 @@ 67 :> 2100 @@ 69 :> 1400)] }

SocialSecurityConfigs ==
    { [TestConfig EXCEPT !.SocialSecurity =
          [ EstimatedPIA |-> pia, ClaimingAge |-> a, MonthlyEstimates |-> est ]] :
        pia \in FullBenefits, a \in ClaimingAges, est \in EstimateMaps }

SocialSecurityInputs ==
    { [ fn |-> "calculateSocialSecurity", args |-> [ c |-> c ] ] :
        c \in SocialSecurityConfigs }

ApplySocialSecurity ==
    /\ fn = "calculateSocialSecurity" /\ ~Returned
    /\ out' = << calculateSocialSecurity(args.c) >>
    /\ UNCHANGED << fn, args, engineVars >>

BornIn(by) == [TestConfig EXCEPT !.Personal.BirthYear = by]

FERSReductionInputs ==
    { [ fn |-> "calculateFERSReduction",
        args |-> [ c |-> BornIn(by), age |-> a, service |-> y ] ] :
        by \in {1945, 1950, 1967}, a \in RetirementAges, y \in ServiceYears }

ApplyFERSReduction ==
    /\ fn = "calculateFERSReduction" /\ ~Returned
    /\ out' = << calculateFERSReduction(args.c, args.age, args.service) >>
    /\ UNCHANGED << fn, args, engineVars >>

MRABirthYears == 1940..1980

MRAInputs ==
    { [ fn |-> "calculateMRA", args |-> [ c |-> BornIn(by) ] ] : by \in MRABirthYears }

(* the engine's lookup and the configuration layer's lookup on the same    *)
(* birth date                                                              *)
ApplyMRA ==
    /\ fn = "calculateMRA" /\ ~Returned
    /\ out' = << calculateMRA(args.c), config_calculateMRA(args.c.Personal.BirthYear) >>
    /\ UNCHANGED << fn, args, engineVars >>

CSRSReductionInputs ==
    { [ fn |-> "calculateCSRSReduction", args |-> [ age |-> a, service |-> y ] ] :
        a \in RetirementAges, y \in ServiceYears }

ApplyCSRSReduction ==
    /\ fn = "calculateCSRSReduction" /\ ~Returned
    /\ out' = << calculateCSRSReduction(args.age, args.service) >>
    /\ UNCHANGED << fn, args, engineVars >>

(* pool balances in steps of 10000 from -10000, beside the amounts below *)
MaxBalanceSteps == 50
Balances ==
    { k * 10000 : k \in (-1)..MaxBalanceSteps } \cup {1, 29999, 30001}

(* a fixed amount is validated > 0; 0 is the field left unset *)
WithdrawalAmounts == {0, 30000, 300000}

FixedAmountConfigs ==
    { [TestConfig EXCEPT !.TSP.WithdrawalStrategy = "fixed_amount",
                         !.TSP.WithdrawalAmount = amt] : amt \in WithdrawalAmounts }

TSPWithdrawalInputs ==
    { [ fn |-> "calculateTSPWithdrawal", args |-> [ c |-> c, balance |-> b, age |-> a ] ] :
        c \in FixedAmountConfigs, b \in Balances, a \in {62, 80} }

ApplyTSPWithdrawal ==
    /\ fn = "calculateTSPWithdrawal" /\ ~Returned
    /\ out' = << calculateTSPWithdrawal(args.c, args.balance, args.age) >>
    /\ UNCHANGED << fn, args, engineVars >>

(* jurisdictions of each branch of the table, and two it does not list *)
TaxStates == NoIncomeTaxStates \cup {"PA", "IL", "VA", ""}

(* the configured flat rate, in percent; 0 is the field left unset *)
StateTaxRates == {0, 5}

TaxConfigs ==
    { [TestConfig EXCEPT !.TaxInfo = [ State |-> st, StateTaxRate |-> r,
                                       PensionTaxExempt |-> pe, SSTaxExempt |-> se ]] :
        st \in TaxStates, r \in StateTaxRates, pe \in BOOLEAN, se \in BOOLEAN }

(* the income fields of a record the tax functions read *)
TaxedIncomes ==
    { [ PensionIncome |-> pi, SocialSecurityIncome |-> si, TSPWithdrawal |-> w,
        GrossIncome |-> GrossIncomeOf(pi, 0, si, w) ] :
        pi \in {0, 30000}, si \in {0, 20000}, w \in {0, 20000} }

StateTaxInputs ==
    { [ fn |-> "calculateStateTax", args |-> [ c |-> c, projection |-> p, age |-> a ] ] :
        c \in TaxConfigs, p \in TaxedIncomes, a \in {64, 65} }

ApplyStateTax ==
    /\ fn = "calculateStateTax" /\ ~Returned
    /\ out' = << calculateStateTax(args.c, args.projection, args.age) >>
    /\ UNCHANGED << fn, args, engineVars >>

EvalInputs ==
    FERSPensionInputs \cup CSRSPensionInputs \cup SurvivorCostInputs
        \cup SocialSecurityInputs \cup FERSReductionInputs \cup MRAInputs
        \cup CSRSReductionInputs \cup TSPWithdrawalInputs \cup StateTaxInputs

InitEval ==
    /\ op = "eval"
    /\ baseConfig = TestConfig
    /\ ageStrings = << >>
    /\ Idle
    /\ \E e \in EvalInputs : fn = e.fn /\ args = e.args
    /\ out = << >>

NextEval ==
    \/ ApplyFERSPension
    \/ ApplyCSRSPension
    \/ ApplySurvivorBenefitCost
    \/ ApplySocialSecurity
    \/ ApplyFERSReduction
    \/ ApplyMRA
    \/ ApplyCSRSReduction
    \/ ApplyTSPWithdrawal
    \/ ApplyStateTax

SpecEval == InitEval /\ [][NextEval]_vars

-----------------------------------------------------------------------------
(* The single-scenario pipeline over profiles on both sides of the         *)
(* supplement's eligibility conditions and of the COLA rules, together     *)
(* with the FERS COLA cap applied to a range of nominal rates.             *)

IncomeProfiles ==
    { [Profile(sy, "life_expectancy", 7, a, 400000, 100000, 500000, y, 82000, "none")
          EXCEPT !.Personal.BirthYear = by] :
        sy \in {"FERS", "CSRS"}, by \in {1945, 1950, 1967},
        a \in {55, 56, 57, 60, 61, 62}, y \in {19, 20, 29, 30} }

(* nominal COLA rates, per thousand *)
MaxNominalRate == 60

FERSCOLAInputs ==
    { [ fn |-> "calculateFERSCOLA", args |-> [ baseRate |-> r ] ] :
        r \in 0..MaxNominalRate }

ApplyFERSCOLA ==
    /\ fn = "calculateFERSCOLA" /\ ~Returned
    /\ out' = << calculateFERSCOLA(args.baseRate) >>
    /\ UNCHANGED << fn, args, engineVars >>

InitIncome ==
    /\ ageStrings = << >>
    /\ Idle
    /\ \/ /\ op = "calc"
          /\ baseConfig \in IncomeProfiles
          /\ NoEvaluator
       \/ /\ op = "eval"
          /\ baseConfig = TestConfig
          /\ \E e \in FERSCOLAInputs : fn = e.fn /\ args = e.args
          /\ out = << >>

NextIncome ==
    \/ RunCalc
    \/ BeginCalculate
    \/ ProjectYear
    \/ FinishCalculate
    \/ ApplyFERSCOLA

SpecIncome == InitIncome /\ [][NextIncome]_vars

-----------------------------------------------------------------------------
(* The single-scenario pipeline over retirement ages and Social Security   *)
(* claiming ages on both sides of each other and of the supplement's end   *)
(* age: models.Config validates the target age to 50..70 and the claiming  *)
(* age to 62..70; the engine itself does not check them, and claiming age  *)
(* 60 is one a profile built without that validation can carry.            *)

BenefitProfiles ==
    { [Profile(sy, "life_expectancy", 7, a, 400000, 100000, 500000, 30, 82000, "none")
          EXCEPT !.SocialSecurity.ClaimingAge = ca] :
        sy \in {"FERS", "CSRS"}, a \in {57, 60, 62, 70}, ca \in {60, 62, 65, 67, 70} }

InitBenefit ==
    /\ op = "calc"
    /\ baseConfig \in BenefitProfiles
    /\ ageStrings = << >>
    /\ Idle
    /\ NoEvaluator

NextBenefit ==
    \/ RunCalc
    \/ BeginCalculate
    \/ ProjectYear
    \/ FinishCalculate

SpecBenefit == InitBenefit /\ [][NextBenefit]_vars

-----------------------------------------------------------------------------
(* The single-scenario pipeline over the four withdrawal strategies with a *)
(* growing pool.  Where a strategy takes the whole pool every year the     *)
(* growth rate is 100%, so that the pool left after the year, balance x    *)
(* rate, is a whole number of dollars in every year of the horizon; the    *)
(* other settings keep the pool in the thousands, where the dollar lost to *)
(* rounding in a year does not decide whether the pool is empty.  The last *)
(* setting, without growth, is the one the pool runs out under.            *)

PoolSettings ==
    { [ strategy |-> "fixed_amount",    growth |-> 7,   amount |-> 30000,   rate |-> 0 ],
      [ strategy |-> "fixed_amount",    growth |-> 100, amount |-> 2000000, rate |-> 0 ],
      [ strategy |-> "life_expectancy", growth |-> 1,   amount |-> 0,       rate |-> 0 ],
      [ strategy |-> "life_expectancy", growth |-> 7,   amount |-> 0,       rate |-> 0 ],
      [ strategy |-> "percentage",      growth |-> 7,   amount |-> 0,       rate |-> 4 ],
      [ strategy |-> "percentage",      growth |-> 7,   amount |-> 0,       rate |-> 20 ],
      [ strategy |-> "percentage",      growth |-> 100, amount |-> 0,       rate |-> 100 ],
      [ strategy |-> "lump_sum",        growth |-> 1,   amount |-> 0,       rate |-> 0 ],
      [ strategy |-> "lump_sum",        growth |-> 7,   amount |-> 0,       rate |-> 0 ],
      [ strategy |-> "lump_sum",        growth |-> 0,   amount |-> 0,       rate |-> 0 ] }

PoolProfiles ==
    { [Profile(sy, s.strategy, s.growth, a, 400000, 100000, 500000, 30, 82000, "none")
          EXCEPT !.TSP.WithdrawalAmount = s.amount, !.TSP.WithdrawalRate = s.rate] :
        sy \in {"FERS", "CSRS"}, s \in PoolSettings, a \in {57, 70} }

InitPool ==
    /\ op = "calc"
    /\ baseConfig \in PoolProfiles
    /\ ageStrings = << >>
    /\ Idle
    /\ NoEvaluator

NextPool ==
    \/ RunCalc
    \/ BeginCalculate
    \/ ProjectYear
    \/ FinishCalculate

SpecPool == InitPool /\ [][NextPool]_vars

-----------------------------------------------------------------------------
(* Properties *)

(* the retirement age of the k-th Calculate run: the caller's own target   *)
(* age (runCalc) or the k-th requested age (CompareRetirementAges)         *)
ScenarioAge(k) ==
    IF op = "calc" THEN baseConfig.Retirement.TargetAge
    ELSE Atoi(ageStrings[k]).value

Last(seq) == seq[Len(seq)]

RecordEqualities(p) ==
    /\ p.NetIncome = p.GrossIncome - p.TotalDeductions
    /\ p.GrossIncome = p.PensionIncome + p.FERSSupplementIncome
                       + p.SocialSecurityIncome + p.TSPWithdrawal + p.OtherIncome
    /\ p.TSPEndBalance = Max(0, p.TSPStartBalance + p.TSPGrowth - p.TSPWithdrawal)

(* C1: every record the projection loop has emitted, in any year and under *)
(* any withdrawal strategy, satisfies net = gross - total deductions,      *)
(* gross = pension + supplement + Social Security + withdrawal + other,    *)
(* and end balance = max(0, start balance + growth - withdrawal).          *)
C1_RecordEqualities ==
    \A k \in 1..Len(projections) : RecordEqualities(projections[k])

(* C1 witness: a whole horizon has been emitted and in one of its years    *)
(* the pool would have gone below zero, so the floor decided the balance.  *)
C1_Witness ==
    /\ pc = "project" /\ age > endAge
    /\ \E k \in 1..Len(projections) :
          /\ projections[k].TSPStartBalance + projections[k].TSPGrowth
                - projections[k].TSPWithdrawal < 0
          /\ projections[k].TSPEndBalance = 0

(* C2: once the pool is at 0 the withdrawal of that year is 0, and every   *)
(* later year of the projection starts at 0, withdraws 0 and ends at 0.    *)
C2_DepletedPoolStaysEmpty ==
    \A k \in 1..Len(projections) :
        /\ projections[k].TSPStartBalance = 0 =>
              /\ projections[k].TSPWithdrawal = 0
              /\ projections[k].TSPEndBalance = 0
        /\ \A j \in 1..(k - 1) :
              projections[j].TSPEndBalance = 0 =>
                 /\ projections[k].TSPStartBalance = 0
                 /\ projections[k].TSPWithdrawal = 0
                 /\ projections[k].TSPEndBalance = 0

(* C2 witness: the pool was positive, was emptied in some year, and the    *)
(* projection went on to the end of the horizon after it.                  *)
C2_Witness ==
    /\ pc = "project" /\ age > endAge
    /\ \E k \in 1..Len(projections) :
          /\ projections[k].TSPStartBalance > 0
          /\ projections[k].TSPEndBalance = 0
          /\ k + 2 <= Len(projections)

AgesInOrder(ps, start) ==
    \A k \in 1..Len(ps) : ps[k].Age = start + k - 1

ProjectionComplete(ps, start) ==
    /\ Len(ps) = (IF start <= endAge THEN endAge + 1 - start ELSE 0)
    /\ AgesInOrder(ps, start)

(* C3: the projection loop always terminates; while it runs it has emitted *)
(* one record per age from the retirement age up to the current age, in    *)
(* steps of 1, and the sequence it returns runs from the retirement age to *)
(* 95 inclusive (96 - retirement age records, none when that age is above  *)
(* 95).                                                                    *)
C3_OneRecordPerAgeAndTerminates ==
    /\ [](pc = "project" =>
             /\ Len(projections) = age - calculateAgeAtRetirement(Config)
             /\ AgesInOrder(projections, calculateAgeAtRetirement(Config)))
    /\ [](\A k \in 1..Len(results) :
             ProjectionComplete(results[k].AnnualProjections, ScenarioAge(k)))
    /\ [](pc = "project" => <>(pc # "project"))

(* C3 witness: a run for retirement age 57 has returned its 39 records.    *)
C3_Witness ==
    \E k \in 1..Len(results) :
        /\ ScenarioAge(k) = 57
        /\ Len(results[k].AnnualProjections) = endAge + 1 - 57
        /\ Last(results[k].AnnualProjections).Age = endAge

(* the records and the summary of a result: everything but its metadata *)
Outcome(r) == [ AnnualProjections |-> r.AnnualProjections, Summary |-> r.Summary ]

(* C4: two runs of Calculate on identical input return identical annual    *)
(* record sequences and identical summaries, whatever the wall clock reads  *)
(* during either run; only the metadata may differ.                        *)
C4_IdenticalRunsIdenticalOutcome ==
    \A j, k \in 1..Len(results) :
        ScenarioAge(j) = ScenarioAge(k) => Outcome(results[j]) = Outcome(results[k])

SetMax(S) == CHOOSE x \in S : \A y \in S : x >= y
SetMin(S) == CHOOSE x \in S : \A y \in S : x <= y

AllParse == \A k \in 1..Len(ageStrings) : Atoi(ageStrings[k]).ok

(* C5: when every supplied age parses, CompareRetirementAges returns one   *)
(* scenario per age in the order supplied, a scenario count equal to the    *)
(* number of ages, and spreads equal to max - min of the scenarios'         *)
(* lifetime incomes and of their replacement ratios.                        *)
C5_CompareCountsOrdersAndSpreads ==
    (pc = "done" /\ op = "compare" /\ AllParse) =>
        /\ err = "nil"
        /\ Len(comparison) = 1
        /\ LET scenarios == comparison[1].Scenarios
               metrics == comparison[1].ComparisonMetrics
               N == Len(ageStrings)
               lifetimes == { scenarios[k].Summary.LifetimeIncome : k \in 1..N }
               ratios == { scenarios[k].Summary.ReplacementRatio : k \in 1..N }
           IN  /\ Len(scenarios) = N
               /\ \A k \in 1..N :
                     ProjectionComplete(scenarios[k].AnnualProjections,
                                        Atoi(ageStrings[k]).value)
               /\ metrics.ScenarioCount = N
               /\ N > 0 =>
                     /\ metrics.LifetimeIncomeSpread
                           = SetMax(lifetimes) - SetMin(lifetimes)
                     /\ metrics.ReplacementRatioSpread
                           = SetMax(ratios) - SetMin(ratios)

(* C5 witness: two ages were compared, the later retirement first, and the *)
(* two scenarios differ in lifetime income and in replacement ratio.        *)
C5_Witness ==
    /\ pc = "done" /\ op = "compare" /\ err = "nil"
    /\ Len(ageStrings) = 2
    /\ Atoi(ageStrings[1]).value > Atoi(ageStrings[2]).value
    /\ Len(comparison) = 1
    /\ comparison[1].ComparisonMetrics.LifetimeIncomeSpread > 0
    /\ comparison[1].ComparisonMetrics.ReplacementRatioSpread > 0

(* C6: when some supplied age is not numeric, CompareRetirementAges        *)
(* returns an error and no comparison, wherever the bad age stands and      *)
(* however many scenarios were computed before it.                          *)
C6_BadAgeFailsWholeComparison ==
    (pc = "done" /\ op = "compare" /\ ~AllParse) =>
        /\ err # "nil"
        /\ comparison = << >>

(* C6 witness: the first age parsed and its scenario was computed, the     *)
(* second age did not parse, and the call has returned.                     *)
C6_Witness ==
    /\ pc = "done" /\ op = "compare"
    /\ Len(ageStrings) = 2
    /\ Atoi(ageStrings[1]).ok /\ ~Atoi(ageStrings[2]).ok
    /\ Len(results) = 1

(* C7: no step of CompareRetirementAges changes the caller's profile, and  *)
(* every scenario is computed on a copy that differs from it in the         *)
(* retirement age only.                                                     *)
C7_CallerProfileUntouched ==
    /\ [][baseConfig' = baseConfig]_vars
    /\ []((op = "compare" /\ pc \in {"calculate", "project"}) =>
             /\ calcConfig = "copy"
             /\ Config = [baseConfig EXCEPT
                            !.Retirement.TargetAge = Atoi(ageStrings[i]).value])

(* C7 witness: a comparison has returned after computing a scenario for an *)
(* age other than the caller's own target age.                              *)
C7_Witness ==
    /\ pc = "done" /\ op = "compare" /\ err = "nil"
    /\ \E k \in 1..Len(results) :
          results[k].AnnualProjections # << >>
          /\ results[k].AnnualProjections[1].Age # baseConfig.Retirement.TargetAge

KnownSystems == {"FERS", "CSRS"}
KnownStrategies == {"fixed_amount", "life_expectancy", "percentage", "lump_sum"}

(* C8: a run on a profile whose retirement-system tag is not one of the    *)
(* two regimes, or whose withdrawal-strategy tag is not one of the four     *)
(* strategies, ends with an error.                                          *)
C8_UnknownTagFails ==
    (/\ pc = "done" /\ op = "calc"
     /\ \/ baseConfig.Personal.RetirementSystem \notin KnownSystems
        \/ baseConfig.TSP.WithdrawalStrategy \notin KnownStrategies)
    => err # "nil"

(* the profile the k-th Calculate run was given *)
ScenarioConfig(k) == [baseConfig EXCEPT !.Retirement.TargetAge = ScenarioAge(k)]

(* C9: Calculate never fails on a soft anomaly: every run returns a        *)
(* complete result and no error, and each anomaly of the profile            *)
(* (eligibility not met, pool components not adding up to the total, a low  *)
(* high-3 salary, retirement before 62) is among the result's warnings.     *)
C9_AnomaliesBecomeWarnings ==
    /\ op = "calc" => err = "nil"
    /\ (op = "calc" /\ pc = "done") => Len(results) = 1
    /\ \A k \in 1..Len(results) :
          LET c == ScenarioConfig(k)
              warnings == { results[k].Metadata.Warnings[n] :
                               n \in 1..Len(results[k].Metadata.Warnings) }
          IN  /\ ProjectionComplete(results[k].AnnualProjections, ScenarioAge(k))
              /\ ~checkRetirementEligibility(c) => WarnEligibility \in warnings
              /\ c.TSP.CurrentBalance # c.TSP.TraditionalBalance + c.TSP.RothBalance
                    => WarnTSPBalance \in warnings
              /\ c.Employment.High3Salary * 10 < c.Employment.CurrentSalary * 9
                    => WarnHigh3 \in warnings
              /\ c.Retirement.TargetAge < 62 => WarnEarly \in warnings

(* C9 witness: a profile with all four anomalies at once was run to the    *)
(* end of the horizon and returned with its four warnings.                  *)
C9_Witness ==
    /\ op = "calc" /\ pc = "done" /\ err = "nil"
    /\ Len(results) = 1
    /\ Last(results[1].AnnualProjections).Age = endAge
    /\ Len(results[1].Metadata.Warnings) = 4

(* C10: the pension result is composed as post-reduction annuity = base x  *)
(* (1 - reduction%/100), in whole dollars, and final annuity =              *)
(* post-reduction annuity - survivor cost; FERS with 25 years of service,   *)
(* high-3 82000, retirement at 62 and the full survivor election gives      *)
(* base 22550, survivor cost 2255, final 20295.                             *)
C10_PensionComposition ==
    (op = "pension" /\ pc = "done") =>
        /\ pension.AdjustedPension
              = (pension.BasePension * (100 - pension.ReductionPercent)) \div 100
        /\ pension.FinalPension = pension.AdjustedPension - pension.SurvivorCost
        /\ (/\ baseConfig.Personal.RetirementSystem = "FERS"
            /\ baseConfig.Employment.CreditableService.TotalYears = 25
            /\ baseConfig.Employment.High3Salary = 82000
            /\ baseConfig.Retirement.TargetAge = 62
            /\ baseConfig.Retirement.SurvivorBenefit = "full")
           => /\ pension.BasePension = 22550
              /\ pension.SurvivorCost = 2255
              /\ pension.FinalPension = 20295

(* C10 witness: the pension of the example profile has been computed. *)
C10_Witness ==
    /\ op = "pension" /\ pc = "done"
    /\ baseConfig.Personal.RetirementSystem = "FERS"
    /\ baseConfig.Employment.CreditableService.TotalYears = 25
    /\ baseConfig.Employment.High3Salary = 82000
    /\ baseConfig.Retirement.TargetAge = 62
    /\ baseConfig.Retirement.SurvivorBenefit = "full"
    /\ pension.FinalPension = 20295

(* C11: the FERS base annuity is high-3 x service x 0.011 exactly when the *)
(* retirement age is at least 62 and the service at least 20 years, and    *)
(* high-3 x service x 0.010 in every other case.                           *)
C11_FERSMultiplier ==
    (fn = "calculateFERSPension" /\ Returned) =>
        IF args.age >= 62 /\ args.service >= 20
        THEN out[1] * 1000 = args.high3 * args.service * 11
        ELSE out[1] * 1000 = args.high3 * args.service * 10

(* C11 witness: the annuity of a retiree aged 62 or more with less than 20 *)
(* years of service has been computed, at the lower multiplier.            *)
C11_Witness ==
    /\ fn = "calculateFERSPension" /\ Returned
    /\ args.age >= 62 /\ args.service = 19
    /\ out[1] * 100 = args.high3 * 19

(* C12: for a fixed positive high-3 the CSRS base annuity is strictly      *)
(* increasing in the service years; the first tier covers min(service, 5)  *)
(* years at 1.5%, the second min(service - 5, 5) years at 1.75%, and for   *)
(* service > 10 the annuity is (5 x 0.015 + 5 x 0.0175 + (service - 10) x  *)
(* 0.02) x high-3.                                                         *)
C12_CSRSTiersIncrease ==
    (fn = "calculateCSRSPension" /\ Returned) =>
        LET y == args.service
            h == args.high3
        IN  /\ \A less \in ServiceYears :
                  less < y => calculateCSRSPension(less, h) < out[1]
            /\ y <= 5 => out[1] * 10000 = y * 150 * h
            /\ (y > 5 /\ y <= 10) => out[1] * 10000 = (5 * 150 + (y - 5) * 175) * h
            /\ y > 10 => out[1] * 10000 = (5 * 150 + 5 * 175 + (y - 10) * 200) * h

(* C12 witness: the annuity for 25 years at a high-3 of 82000 has been     *)
(* computed: 6150 + 7175 + 24600.                                          *)
C12_Witness ==
    /\ fn = "calculateCSRSPension" /\ Returned
    /\ args.service = 25 /\ args.high3 = 82000
    /\ out[1] = 37925

(* C13: the survivor cost is a function of regime, election and            *)
(* post-reduction annuity P alone: FERS charges 0.10 x P for full, 0.05 x  *)
(* P for partial, 0 for none; CSRS charges 0.025 x min(P, 3600) + 0.10 x   *)
(* max(P - 3600, 0) for full, half of that for partial, 0 for none (as    *)
(* for every election that is neither full nor partial).                   *)
C13_SurvivorCostByRegimeAndElection ==
    (fn = "calculateSurvivorBenefitCost" /\ Returned) =>
        LET P == args.pension
            regime == args.c.Personal.RetirementSystem
            election == args.c.Retirement.SurvivorBenefit
            fullCSRS == 25 * Min(P, 3600) + 100 * Max(P - 3600, 0)
        IN  /\ (regime = "FERS" /\ election = "full") => out[1] * 10 = P
            /\ (regime = "FERS" /\ election = "partial") => out[1] * 20 = P
            /\ (regime = "CSRS" /\ election = "full") => out[1] * 1000 = fullCSRS
            /\ (regime = "CSRS" /\ election = "partial") => out[1] * 2000 = fullCSRS
            /\ election \notin {"full", "partial"} => out[1] = 0

(* C13 witness: the cost of a partial CSRS election on an annuity of 20000 *)
(* has been computed: half of 90 + 1640.                                   *)
C13_Witness ==
    /\ fn = "calculateSurvivorBenefitCost" /\ Returned
    /\ args.c.Personal.RetirementSystem = "CSRS"
    /\ args.c.Retirement.SurvivorBenefit = "partial"
    /\ args.pension = 20000
    /\ out[1] = 865

(* the caller supplied a point estimate for the chosen claiming age *)
HasEstimate(c) ==
    /\ ~c.SocialSecurity.MonthlyEstimates.isNil
    /\ c.SocialSecurity.ClaimingAge \in DOMAIN c.SocialSecurity.MonthlyEstimates.m

(* factor 1.0 and the full benefit at the reference age, a factor below    *)
(* 1.0 before it and above 1.0 after it                                    *)
AdjustmentFollowsClaimingAge(c, ss) ==
    /\ c.SocialSecurity.ClaimingAge = 67 =>
          /\ ss.Adjustment = AdjScale
          /\ ss.MonthlyBenefit = c.SocialSecurity.EstimatedPIA
    /\ c.SocialSecurity.ClaimingAge < 67 => ss.Adjustment < AdjScale
    /\ c.SocialSecurity.ClaimingAge > 67 => ss.Adjustment > AdjScale

(* C14, as stated: for every claiming age in 62..70 the result of          *)
(* calculateSocialSecurity has factor 1.0 and the full benefit at 67, a    *)
(* factor below 1.0 before 67 and above 1.0 after 67.                      *)
C14_AdjustmentFollowsClaimingAge ==
    (fn = "calculateSocialSecurity" /\ Returned
        /\ args.c.SocialSecurity.ClaimingAge \in 62..70)
    => AdjustmentFollowsClaimingAge(args.c, out[1])

(* C14, amended: the same, for every profile that carries no point         *)
(* estimate for its claiming age (the map absent, or without that age).    *)
C14_AnalyticAdjustmentFollowsClaimingAge ==
    (fn = "calculateSocialSecurity" /\ Returned
        /\ args.c.SocialSecurity.ClaimingAge \in 62..70
        /\ ~HasEstimate(args.c))
    => AdjustmentFollowsClaimingAge(args.c, out[1])

(* C14 witness: a benefit claimed at 70 with an estimate map that has no   *)
(* entry for 70 has been computed, with 36 months of delayed credit.       *)
C14_Witness ==
    /\ fn = "calculateSocialSecurity" /\ Returned
    /\ args.c.SocialSecurity.ClaimingAge = 70
    /\ ~args.c.SocialSecurity.MonthlyEstimates.isNil
    /\ ~HasEstimate(args.c)
    /\ out[1].Adjustment = AdjScale + 36 * 666

(* the minimum retirement age by birth year: 55 before 1950, 56 for 1950   *)
(* through 1964, 57 from 1965 on                                           *)
MRAByBirthYear(by) == IF by < 1950 THEN 55 ELSE IF by < 1965 THEN 56 ELSE 57

FERSUnreduced(a, service, mra) ==
    \/ a >= 62 /\ service >= 5
    \/ a >= 60 /\ service >= 20
    \/ a >= mra /\ service >= 30

(* C15, as stated: the FERS reduction is 0 under each unreduced condition, *)
(* and for every retiree with age >= minimum retirement age, 10 <= service *)
(* < 30 and age < 62 it is 5 x (62 - age) percent.                         *)
C15_FERSReduction ==
    (fn = "calculateFERSReduction" /\ Returned) =>
        LET mra == MRAByBirthYear(args.c.Personal.BirthYear)
        IN  /\ FERSUnreduced(args.age, args.service, mra) => out[1] = 0
            /\ (args.age >= mra /\ args.service >= 10 /\ args.service < 30
                   /\ args.age < 62)
               => out[1] = 5 * (62 - args.age)

(* C15, amended: the FERS reduction is 0 under each unreduced condition,   *)
(* and for a retiree under none of them with age >= minimum retirement     *)
(* age, 10 <= service < 30 and age < 62 it is 5 x (62 - age) percent, with *)
(* no cap.                                                                 *)
C15_FERSReductionOutsideUnreduced ==
    (fn = "calculateFERSReduction" /\ Returned) =>
        LET mra == MRAByBirthYear(args.c.Personal.BirthYear)
        IN  /\ FERSUnreduced(args.age, args.service, mra) => out[1] = 0
            /\ (~FERSUnreduced(args.age, args.service, mra)
                   /\ args.age >= mra /\ args.service >= 10 /\ args.service < 30
                   /\ args.age < 62)
               => out[1] = 5 * (62 - args.age)

(* C15 witness: the reduction of a retiree at a minimum retirement age of  *)
(* 55 with 15 years has been computed: 35%, above the 25% of the example.  *)
C15_Witness ==
    /\ fn = "calculateFERSReduction" /\ Returned
    /\ args.age = 55 /\ args.service = 15
    /\ out[1] = 35

(* C16: the minimum retirement age is 55 for birth years before 1950, 56   *)
(* for 1950 through 1964 and 57 from 1965 on, so it takes values in {55,   *)
(* 56, 57} only and never decreases as the birth year grows; the engine's  *)
(* lookup and the configuration layer's lookup agree on every birth year.  *)
C16_MRAStepFunction ==
    (fn = "calculateMRA" /\ Returned) =>
        LET by == args.c.Personal.BirthYear
        IN  /\ out[1] \in {55, 56, 57}
            /\ out[1] = MRAByBirthYear(by)
            /\ \A earlier \in MRABirthYears :
                  earlier < by => calculateMRA(BornIn(earlier)) <= out[1]
            /\ out[2] = out[1]

(* C16 witness: both lookups have returned 55 for birth year 1949, the     *)
(* last year before the first step.                                        *)
C16_Witness ==
    /\ fn = "calculateMRA" /\ Returned
    /\ args.c.Personal.BirthYear = 1949
    /\ out = << 55, 55 >>

CSRSUnreduced(a, service) ==
    \/ a >= 62
    \/ a >= 60 /\ service >= 20
    \/ a >= 55 /\ service >= 30

(* C17: the CSRS reduction is 0 when age >= 62, or age >= 60 with at least *)
(* 20 years, or age >= 55 with at least 30 years, and min(2 x (62 - age),  *)
(* 25) percent in every other case.                                        *)
C17_CSRSReduction ==
    (fn = "calculateCSRSReduction" /\ Returned) =>
        IF CSRSUnreduced(args.age, args.service)
        THEN out[1] = 0
        ELSE out[1] = Min(2 * (62 - args.age), 25)

(* C18: in every Social Security result the monthly benefit is the full    *)
(* benefit x the adjustment factor, in whole dollars.  With a point        *)
(* estimate for the claiming age the monthly benefit is that estimate and  *)
(* the factor is estimate / full benefit; without one (the map absent, or  *)
(* without that age) the factor is the analytic one.                       *)
C18_EstimateOverridesAnalyticFactor ==
    (fn = "calculateSocialSecurity" /\ Returned) =>
        LET ss == out[1]
            pia == args.c.SocialSecurity.EstimatedPIA
            claimingAge == args.c.SocialSecurity.ClaimingAge
        IN  /\ ss.PIA = pia /\ ss.ClaimingAge = claimingAge
            /\ ss.MonthlyBenefit * AdjScale <= pia * ss.Adjustment
            /\ ss.MonthlyBenefit * AdjScale > pia * ss.Adjustment - AdjScale
            /\ HasEstimate(args.c) =>
                  /\ ss.MonthlyBenefit = args.c.SocialSecurity.MonthlyEstimates.m[claimingAge]
                  /\ ss.Adjustment * pia = ss.MonthlyBenefit * AdjScale
            /\ ~HasEstimate(args.c) =>
                  ss.Adjustment = calculateSSClaimingAdjustment(claimingAge)

(* C18 witness: a profile with an estimate of 1400 for claiming age 69 on  *)
(* a full benefit of 2800 has its result: benefit 1400, factor 0.5.        *)
C18_Witness ==
    /\ fn = "calculateSocialSecurity" /\ Returned
    /\ HasEstimate(args.c)
    /\ args.c.SocialSecurity.ClaimingAge = 69
    /\ out[1].PIA = 2800
    /\ out[1].MonthlyBenefit = 1400
    /\ out[1].Adjustment * 2 = AdjScale

SupplementEligible(c) ==
    /\ c.Personal.RetirementSystem = "FERS"
    /\ c.Retirement.TargetAge < 62
    /\ \/ /\ c.Retirement.TargetAge >= MRAByBirthYear(c.Personal.BirthYear)
          /\ c.Employment.CreditableService.TotalYears >= 30
       \/ /\ c.Retirement.TargetAge >= 60
          /\ c.Employment.CreditableService.TotalYears >= 20

(* C19: the supplement is eligible exactly when the regime is FERS, the    *)
(* retirement age is below 62 and either (age >= minimum retirement age    *)
(* with at least 30 years) or (age >= 60 with at least 20 years); an       *)
(* ineligible profile has amount 0 and an empty window; and a record of    *)
(* the projection has supplement income other than 0 only at an age a with *)
(* retirement age <= a < 62.                                               *)
C19_SupplementEligibilityAndWindow ==
    (op = "calc" /\ pc \in {"project", "done"}) =>
        /\ ferssupplement.Eligible <=> SupplementEligible(baseConfig)
        /\ ~ferssupplement.Eligible =>
              /\ ferssupplement.MonthlyAmount = 0
              /\ ferssupplement.StartAge = ferssupplement.EndAge
        /\ \A k \in 1..Len(projections) :
              projections[k].FERSSupplementIncome # 0 =>
                 /\ baseConfig.Retirement.TargetAge <= projections[k].Age
                 /\ projections[k].Age < 62

(* C19 witness: a retiree at 60 with 20 years, below the 30 years of the   *)
(* other condition, was paid the supplement at 60 and 61 and nothing at 62. *)
C19_Witness ==
    /\ op = "calc" /\ pc = "done"
    /\ baseConfig.Retirement.TargetAge = 60
    /\ baseConfig.Employment.CreditableService.TotalYears = 20
    /\ ferssupplement.Eligible
    /\ projections[1].FERSSupplementIncome > 0
    /\ projections[2].FERSSupplementIncome > 0
    /\ projections[3].Age = 62 /\ projections[3].FERSSupplementIncome = 0

(* the FERS cap on a nominal rate r, per thousand: r up to 2%, 2% up to    *)
(* 3%, r - 1% above                                                        *)
CappedCOLA(r) == IF r <= 20 THEN r ELSE IF r <= 30 THEN 20 ELSE r - 10

(* C20: the k-th record of a projection is k - 1 years after retirement.   *)
(* Its pension income is the final annuity in the retirement year; for a   *)
(* FERS retiree it is the final annuity in every year with attained age    *)
(* below 62; in every other later year it is the final annuity x (1 +      *)
(* COLA)^(years since retirement), the COLA being the nominal 2.5% for     *)
(* CSRS and its capped value for FERS, where the cap maps r to r if r <=   *)
(* 2%, to 2% if 2% < r <= 3%, and to r - 1% if r > 3%.                     *)
C20_PensionIncomeByYear ==
    /\ (fn = "calculateFERSCOLA" /\ Returned) => out[1] = CappedCOLA(args.baseRate)
    /\ (op = "calc" /\ pc \in {"project", "done"}) =>
          \A k \in 1..Len(projections) :
              LET income == projections[k].PensionIncome
                  final == pension.FinalPension
                  isFERS == baseConfig.Personal.RetirementSystem = "FERS"
              IN  IF k = 1 THEN income = final
                  ELSE IF isFERS /\ projections[k].Age < 62 THEN income = final
                  ELSE income = Compound(final, IF isFERS THEN CappedCOLA(25) ELSE 25,
                                         1000, k - 1)

(* C20 witness: a FERS retiree who left at 57 was paid the final annuity   *)
(* up to 61 and, at 62, the final annuity with five years of 2% on it.     *)
C20_Witness ==
    /\ op = "calc" /\ pc = "done"
    /\ baseConfig.Personal.RetirementSystem = "FERS"
    /\ baseConfig.Retirement.TargetAge = 57
    /\ pension.FinalPension > 0
    /\ projections[5].Age = 61
    /\ projections[5].PensionIncome = pension.FinalPension
    /\ projections[6].Age = 62
    /\ projections[6].PensionIncome > pension.FinalPension
    /\ projections[6].PensionIncome < Compound(pension.FinalPension, 25, 1000, 5)

(* C21: across the projection, Social Security income is 0 in every record *)
(* whose age is below the claiming age, 12 x the monthly benefit in the    *)
(* record whose age is the claiming age, and in every later record 12 x    *)
(* the monthly benefit compounded at 2.5% once per year since the claiming *)
(* age.                                                                    *)
C21_SocialSecurityIncomeByYear ==
    (op = "calc" /\ pc \in {"project", "done"}) =>
        \A k \in 1..Len(projections) :
            LET a == projections[k].Age
                income == projections[k].SocialSecurityIncome
                claimingAge == baseConfig.SocialSecurity.ClaimingAge
                annual == 12 * socialSecurity.MonthlyBenefit
            IN  /\ a < claimingAge => income = 0
                /\ a = claimingAge => income = annual
                /\ a > claimingAge =>
                      income = Compound(annual, 25, 1000, a - claimingAge)

(* C21 witness: a retiree at 60 who claims at 65 was paid nothing at 64,   *)
(* twelve monthly benefits at 65 and more than that, by one year of 2.5%,  *)
(* at 66.                                                                  *)
C21_Witness ==
    /\ op = "calc" /\ pc = "done"
    /\ baseConfig.Retirement.TargetAge = 60
    /\ baseConfig.SocialSecurity.ClaimingAge = 65
    /\ socialSecurity.MonthlyBenefit > 0
    /\ projections[5].Age = 64 /\ projections[5].SocialSecurityIncome = 0
    /\ projections[6].SocialSecurityIncome = 12 * socialSecurity.MonthlyBenefit
    /\ projections[7].SocialSecurityIncome
          = (12 * socialSecurity.MonthlyBenefit * 1025) \div 1000

(* the withdrawals of one scenario's records under the lump-sum strategy   *)
LumpSumWithdrawals(ps, retirementAge) ==
    \A k \in 1..Len(ps) :
        /\ ps[k].Age = retirementAge => ps[k].TSPWithdrawal = ps[k].TSPStartBalance
        /\ ps[k].Age > retirementAge => ps[k].TSPWithdrawal = 0

(* C22: under the lump-sum strategy with a positive pool at retirement,    *)
(* the withdrawal is the entire start-of-year balance in the record whose  *)
(* age is the retirement age and 0 in every later record, in the           *)
(* projection under way and in every scenario returned.                    *)
C22_LumpSumOnceAtRetirement ==
    (/\ baseConfig.TSP.WithdrawalStrategy = "lump_sum"
     /\ baseConfig.TSP.TraditionalBalance + baseConfig.TSP.RothBalance > 0) =>
        /\ pc = "project" => LumpSumWithdrawals(projections, Config.Retirement.TargetAge)
        /\ \A k \in 1..Len(results) :
              LumpSumWithdrawals(results[k].AnnualProjections, ScenarioAge(k))

(* C22 witness: a lump-sum retiree at 57 with 500000 and 7% growth took    *)
(* the 500000 at 57; the growth of that year stayed in the pool, and       *)
(* nothing was taken from it at 58 or at 95.                               *)
C22_Witness ==
    /\ op = "calc" /\ pc = "done"
    /\ baseConfig.TSP.WithdrawalStrategy = "lump_sum"
    /\ baseConfig.TSP.GrowthRate = 7
    /\ baseConfig.Retirement.TargetAge = 57
    /\ Len(results) = 1
    /\ LET ps == results[1].AnnualProjections
       IN  /\ ps[1].Age = 57 /\ ps[1].TSPWithdrawal = 500000
           /\ ps[2].TSPStartBalance = 35000 /\ ps[2].TSPWithdrawal = 0
           /\ Last(ps).Age = endAge /\ Last(ps).TSPWithdrawal = 0

(* C23: under the fixed-amount strategy the withdrawal is min(configured   *)
(* amount, start-of-year balance) when the balance is positive and 0 when  *)
(* the balance is <= 0, so it never exceeds the balance available at the   *)
(* start of the year.                                                      *)
C23_FixedAmountCappedAtBalance ==
    (/\ fn = "calculateTSPWithdrawal" /\ Returned
     /\ args.c.TSP.WithdrawalStrategy = "fixed_amount") =>
        /\ args.balance > 0 => out[1] = Min(args.c.TSP.WithdrawalAmount, args.balance)
        /\ args.balance <= 0 => out[1] = 0
        /\ out[1] <= Max(args.balance, 0)

(* C23 witness: 300000 a year was asked of a pool holding 120000, and the  *)
(* 120000 was paid.                                                        *)
C23_Witness ==
    /\ fn = "calculateTSPWithdrawal" /\ Returned
    /\ args.c.TSP.WithdrawalStrategy = "fixed_amount"
    /\ args.c.TSP.WithdrawalAmount = 300000
    /\ args.balance = 120000
    /\ out[1] = 120000

(* the positions of the records in which the pool ran out *)
DepletingRecords(ps) ==
    { j \in 1..Len(ps) : ps[j].TSPEndBalance = 0 /\ ps[j].TSPStartBalance > 0 }

(* C24: the summary's pool depletion age is the age of the first record,   *)
(* in sequence order, whose end balance is zero while its start balance    *)
(* was positive, and it is the sentinel 0 exactly when no record is such.  *)
C24_DepletionAgeIsFirstEmptyingRecord ==
    \A k \in 1..Len(results) :
        LET ps == results[k].AnnualProjections
            depletion == results[k].Summary.TSPProjectedDepletion
        IN  /\ DepletingRecords(ps) # {} =>
                  depletion = ps[SetMin(DepletingRecords(ps))].Age
            /\ depletion = 0 <=> DepletingRecords(ps) = {}

(* C24 witness: a pool of 500000 paying 300000 a year without growth ran   *)
(* out in the second year, at 58, and the summary reports 58; the years    *)
(* after it, which start and end at zero, do not count.                    *)
C24_Witness ==
    /\ op = "calc" /\ pc = "done" /\ Len(results) = 1
    /\ baseConfig.TSP.WithdrawalStrategy = "fixed_amount"
    /\ baseConfig.TSP.GrowthRate = 0
    /\ LET ps == results[1].AnnualProjections
       IN  /\ ps[1].Age = 57 /\ ps[1].TSPEndBalance = 200000
           /\ ps[2].TSPEndBalance = 0
           /\ ps[3].TSPStartBalance = 0 /\ ps[3].TSPEndBalance = 0
    /\ results[1].Summary.TSPProjectedDepletion = 58

(* the regional tax by the two rules, rates in percent and per ten         *)
(* thousand: the configured flat rate on gross less the exempt incomes,    *)
(* or the table                                                            *)
RegionalTaxByRule(c, p, a) ==
    IF c.TaxInfo.StateTaxRate > 0
    THEN (c.TaxInfo.StateTaxRate
            * Max(0, p.GrossIncome
                     - (IF c.TaxInfo.PensionTaxExempt THEN p.PensionIncome ELSE 0)
                     - (IF c.TaxInfo.SSTaxExempt THEN p.SocialSecurityIncome ELSE 0)))
         \div 100
    ELSE CASE c.TaxInfo.State \in {"FL", "TX", "NV", "AK", "SD", "WY", "WA", "TN", "NH"} -> 0
           [] c.TaxInfo.State = "PA" -> (p.TSPWithdrawal * 307) \div 10000
           [] c.TaxInfo.State = "IL" ->
                (IF a >= 65 THEN 0 ELSE (p.GrossIncome * 495) \div 10000)
           [] OTHER -> (p.GrossIncome * 5) \div 100

(* C25: regional tax follows exactly one of two rules: with a flat rate    *)
(* > 0 configured it is rate x max(0, gross - pension if pension-exempt -  *)
(* Social Security if SS-exempt), whatever the jurisdiction; otherwise it  *)
(* is 0 for the no-tax jurisdictions, a tax on the pool withdrawal only    *)
(* for PA, 0 on all retirement income at age >= 65 for IL (4.95% of gross  *)
(* below 65), and 5% of gross for every unlisted jurisdiction.             *)
C25_RegionalTaxRules ==
    (fn = "calculateStateTax" /\ Returned) =>
        out[1] = RegionalTaxByRule(args.c, args.projection, args.age)

(* the pool of one scenario's records, carried from year to year *)
BalanceCarried(ps, c) ==
    /\ Len(ps) >= 1 =>
          ps[1].TSPStartBalance = c.TSP.TraditionalBalance + c.TSP.RothBalance
    /\ \A j \in 1..(Len(ps) - 1) :
          ps[j + 1].TSPStartBalance = ps[j].TSPEndBalance

(* C26: the pool balance is carried across years without gaps: the first   *)
(* record's start balance is the profile's traditional + Roth balance, and *)
(* of every two consecutive records the later one's start balance is the   *)
(* earlier one's end balance, in the projection under way and in every     *)
(* scenario returned.                                                      *)
C26_BalanceCarriedAcrossYears ==
    /\ pc = "project" => BalanceCarried(projections, baseConfig)
    /\ \A k \in 1..Len(results) :
          BalanceCarried(results[k].AnnualProjections, baseConfig)

(* C26 witness: a profile stating a total of 450000 over components of     *)
(* 400000 and 100000 started at 500000, and its second year started at the *)
(* balance, another one, its first year ended with.                        *)
C26_Witness ==
    /\ op = "calc" /\ pc = "done" /\ Len(results) = 1
    /\ baseConfig.TSP.CurrentBalance = 450000
    /\ LET ps == results[1].AnnualProjections
       IN  /\ ps[1].TSPStartBalance = 500000
           /\ ps[1].TSPEndBalance # 500000
           /\ ps[2].TSPStartBalance = ps[1].TSPEndBalance
           /\ Last(ps).Age = endAge

(* a positive pool at retirement that grows, under one of the four         *)
(* strategies, with a withdrawal rate of at most 1                         *)
GrowingPool(c) ==
    /\ c.TSP.TraditionalBalance + c.TSP.RothBalance > 0
    /\ c.TSP.GrowthRate > 0
    /\ c.TSP.WithdrawalRate <= 100
    /\ c.TSP.WithdrawalStrategy
          \in {"fixed_amount", "life_expectancy", "percentage", "lump_sum"}

(* C27: for a profile with a positive initial pool, growth rate > 0 and    *)
(* withdrawal rate <= 1, the pool's end balance is strictly positive in    *)
(* every record under each of the four strategies, and the summary's       *)
(* depletion age is the sentinel 0.                                        *)
C27_GrowingPoolNeverDepletes ==
    (op = "calc" /\ GrowingPool(baseConfig)) =>
        /\ pc \in {"project", "done"} =>
              \A k \in 1..Len(projections) : projections[k].TSPEndBalance > 0
        /\ \A k \in 1..Len(results) :
              results[k].Summary.TSPProjectedDepletion = 0

(* C27 witness: a profile withdrawing 100% of the pool in every year from  *)
(* 57 to 95: each year's withdrawal was the whole start balance, the       *)
(* year's growth was what remained, and the summary reports no depletion.  *)
C27_Witness ==
    /\ op = "calc" /\ pc = "done" /\ Len(results) = 1
    /\ baseConfig.TSP.WithdrawalStrategy = "percentage"
    /\ baseConfig.TSP.WithdrawalRate = 100
    /\ Len(projections) = endAge + 1 - 57
    /\ \A k \in 1..Len(projections) :
          /\ projections[k].TSPWithdrawal = projections[k].TSPStartBalance
          /\ projections[k].TSPEndBalance = projections[k].TSPGrowth
          /\ projections[k].TSPEndBalance > 0
    /\ results[1].Summary.TSPProjectedDepletion = 0

(* C28: for a profile whose Social Security claiming age is within the     *)
(* validated range 62..70, no annual record has both a positive supplement *)
(* income and a positive Social Security income.                           *)
C28_SupplementAndSocialSecurityDisjoint ==
    (op = "calc" /\ pc \in {"project", "done"}
        /\ baseConfig.SocialSecurity.ClaimingAge \in 62..70) =>
        \A k \in 1..Len(projections) :
            ~(/\ projections[k].FERSSupplementIncome > 0
              /\ projections[k].SocialSecurityIncome > 0)

(* C28 witness: a FERS retiree at 60 who claims at 62 was paid the         *)
(* supplement and no Social Security at 61, and Social Security and no     *)
(* supplement at 62.                                                       *)
C28_Witness ==
    /\ op = "calc" /\ pc = "done"
    /\ baseConfig.Retirement.TargetAge = 60
    /\ baseConfig.SocialSecurity.ClaimingAge = 62
    /\ projections[2].Age = 61
    /\ projections[2].FERSSupplementIncome > 0
    /\ projections[2].SocialSecurityIncome = 0
    /\ projections[3].FERSSupplementIncome = 0
    /\ projections[3].SocialSecurityIncome > 0

(* C29: for every age string that parses as an integer,                    *)
(* CompareRetirementAges returns for it a scenario whose annual record     *)
(* sequence is non-empty and whose first record's age is the requested     *)
(* age, so that the renderer's read of the first record is defined.        *)
C29_ScenarioStartsAtRequestedAge ==
    op = "compare" =>
        \A k \in 1..Len(results) :
            /\ Len(results[k].AnnualProjections) >= 1
            /\ results[k].AnnualProjections[1].Age = ScenarioAge(k)

(* C30: the warning 'Early retirement will result in reduced pension       *)
(* benefits' is attached to a result if and only if that result's pension  *)
(* reduction percentage is greater than 0.                                 *)
C30_EarlyWarningIffReduced ==
    \A k \in 1..Len(results) :
        LET warnings == { results[k].Metadata.Warnings[n] :
                             n \in 1..Len(results[k].Metadata.Warnings) }
        IN  WarnEarly \in warnings <=> results[k].Summary.PensionReductionPct > 0

=============================================================================
